---------------------------- MODULE Spec2Model ----------------------------
(***************************************************************************)
(* A model of the typed-value protocol of jdsu/OntRemote/Scpi.py.          *)
(*                                                                         *)
(* Wire tokens are sequences of one-character strings.  Python values are *)
(* records [t, n, neg, e, s]: t is the Python type ("int", "float", "str", *)
(* "None"), n the integer (int) or the decimal mantissa (float), neg and e *)
(* the sign and the number of decimals of a float, s the text of a str.    *)
(* Every call of a method is one action; what the call sent through the    *)
(* connection (sendScpi / receiveScpi), how it ended and what it returned  *)
(* is kept in the variable call.                                           *)
(***************************************************************************)
EXTENDS Integers, Sequences, FiniteSets, TLC

VARIABLES
    obj,    \* the class of the object under test
    par,    \* the object: its attributes, among them the bound set / get methods
    call,   \* the last call: [op, arg, pre, wire, out, ret]
    hist,   \* history: whether a store() has completed, the response it read,
            \* and whether a set() has written since
    dev     \* the device and the session: what is fixed while the object is used

vars == <<obj, par, call, hist, dev>>

---------------------------------------------------------------------------
(* Bounds of the model.                                                    *)

\* longest numeric token a device answers with
NumLen == 2
\* longest content of a quoted string a device answers with
StrLen == 2
\* most elements of a vector a device answers with
BlkLen == 2
\* longest string that is quoted and read back
QuoteLen == 5
\* most full pages an event request or an event list spans
EventPages == 2
\* longest validity flag and longest value token of a result response
FlagLen == 2
\* flag / value pairs after the count of a block result response
PairLen == 2
ValLen == 2

---------------------------------------------------------------------------
(* Characters and tokens.                                                  *)

Quote == "\""

DigitChars == <<"0", "1", "2", "3", "4", "5", "6", "7", "8", "9">>

IsDigit(c) == \E i \in 1..10 : DigitChars[i] = c

DigitVal(c) == (CHOOSE i \in 1..10 : DigitChars[i] = c) - 1

\* all sequences over A of a length in lo..hi
SeqsOver(A, lo, hi) == UNION {[1..k -> A] : k \in lo..hi}

RECURSIVE Pow10(_)
Pow10(k) == IF k = 0 THEN 1 ELSE 10 * Pow10(k - 1)

\* str.find(c) > -1
Contains(t, c) == \E i \in 1..Len(t) : t[i] = c

\* the index of the first c in t, 0 when there is none
FirstIndex(t, c) ==
    IF Contains(t, c) THEN CHOOSE i \in 1..Len(t) : t[i] = c /\ \A j \in 1..(i - 1) : t[j] # c
    ELSE 0

\* t[1:-1]
StripEnds(t) == SubSeq(t, 2, Len(t) - 1)

\* str.split(c): the pieces between the separators, one piece for a text without any
RECURSIVE Split(_, _)
Split(t, c) ==
    IF ~Contains(t, c) THEN <<t>>
    ELSE <<SubSeq(t, 1, FirstIndex(t, c) - 1)>> \o Split(SubSeq(t, FirstIndex(t, c) + 1, Len(t)), c)

\* c.join(items)
RECURSIVE Join(_, _)
Join(items, c) ==
    IF Len(items) = 0 THEN <<>>
    ELSE IF Len(items) = 1 THEN items[1]
    ELSE items[1] \o <<c>> \o Join(Tail(items), c)

---------------------------------------------------------------------------
(* Python values.                                                          *)

None == [t |-> "None", n |-> 0, neg |-> FALSE, e |-> 0, s |-> <<>>]
TypeV(name) == [t |-> "type", n |-> 0, neg |-> FALSE, e |-> 0, s |-> <<name>>]
IntV(n) == [t |-> "int", n |-> n, neg |-> FALSE, e |-> 0, s |-> <<>>]
FloatV(neg, m, e) == [t |-> "float", n |-> m, neg |-> neg, e |-> e, s |-> <<>>]
StrV(s) == [t |-> "str", n |-> 0, neg |-> FALSE, e |-> 0, s |-> s]
\* a list; s holds its items
ListV(items) == [t |-> "list", n |-> 0, neg |-> FALSE, e |-> 0, s |-> items]

\* the digits of a token without its sign
Unsigned(t) == IF Len(t) > 0 /\ t[1] \in {"-", "+"} THEN Tail(t) ELSE t

RECURSIVE DigitsVal(_)
DigitsVal(t) == IF Len(t) = 0 THEN 0 ELSE 10 * DigitsVal(SubSeq(t, 1, Len(t) - 1)) + DigitVal(t[Len(t)])

\* int(token) succeeds: an optional sign and at least one digit
IntParses(t) ==
    /\ Len(Unsigned(t)) > 0
    /\ \A i \in 1..Len(Unsigned(t)) : IsDigit(Unsigned(t)[i])

\* int(token)
IntOf(t) == IF t[1] = "-" THEN 0 - DigitsVal(Unsigned(t)) ELSE DigitsVal(Unsigned(t))

\* float(token) succeeds: an optional sign, digits around at most one point,
\* at least one digit (no exponent, inf or nan within the alphabets used)
FloatParses(t) ==
    LET u == Unsigned(t)
    IN  /\ \E i \in 1..Len(u) : IsDigit(u[i])
        /\ \A i \in 1..Len(u) : IsDigit(u[i]) \/ u[i] = "."
        /\ Cardinality({i \in 1..Len(u) : u[i] = "."}) <= 1

RECURSIVE Normalize(_, _, _)
Normalize(neg, m, e) ==
    IF e > 0 /\ m % 10 = 0 THEN Normalize(neg, m \div 10, e - 1) ELSE FloatV(neg, m, e)

\* float(token): the decimal mantissa and the number of decimals
FloatOf(t) ==
    LET u == Unsigned(t)
        d == FirstIndex(u, ".")
        digits == IF d = 0 THEN u ELSE SubSeq(u, 1, d - 1) \o SubSeq(u, d + 1, Len(u))
        e == IF d = 0 THEN 0 ELSE Len(u) - d
    IN  Normalize(Len(t) > 0 /\ t[1] = "-", DigitsVal(digits), e)

RECURSIVE NatText(_)
NatText(n) == IF n < 10 THEN <<DigitChars[n + 1]>> ELSE NatText(n \div 10) \o <<DigitChars[(n % 10) + 1]>>

RECURSIVE PadLeft(_, _)
PadLeft(t, k) == IF Len(t) >= k THEN t ELSE PadLeft(<<"0">> \o t, k)

\* '%s' % value
Format(v) ==
    CASE v.t = "int" -> IF v.n < 0 THEN <<"-">> \o NatText(0 - v.n) ELSE NatText(v.n)
      [] v.t = "float" ->
            (IF v.neg THEN <<"-">> ELSE <<>>)
            \o NatText(v.n \div Pow10(v.e)) \o <<".">>
            \o (IF v.e = 0 THEN <<"0">> ELSE PadLeft(NatText(v.n % Pow10(v.e)), v.e))
      [] v.t = "str" -> v.s
      [] OTHER -> <<"N", "o", "n", "e">>

---------------------------------------------------------------------------
(* SCPI string quoting.                                                    *)

\* str.replace('"', '""')
RECURSIVE DoubleQuotes(_)
DoubleQuotes(s) ==
    IF Len(s) = 0 THEN <<>>
    ELSE (IF s[1] = Quote THEN <<Quote, Quote>> ELSE <<s[1]>>) \o DoubleQuotes(Tail(s))

\* a read that strips the enclosing quotes and leaves doubled quotes doubled
CollapseQuotesNever(s) == s

\* str.replace('""', '"'): left to right, non-overlapping
RECURSIVE CollapseQuotes(_)
CollapseQuotes(s) ==
    IF Len(s) < 2 THEN s
    ELSE IF s[1] = Quote /\ s[2] = Quote THEN <<Quote>> \o CollapseQuotes(SubSeq(s, 3, Len(s)))
    ELSE <<s[1]>> \o CollapseQuotes(Tail(s))

\* the token Parameter._setScpiString writes for the str s
ScpiQuote(s) == <<Quote>> \o DoubleQuotes(s) \o <<Quote>>

\* what Parameter.get / _getString make of a non-empty response
ScpiUnquote(t) == IF t[1] = Quote THEN CollapseQuotes(StripEnds(t)) ELSE t

---------------------------------------------------------------------------
(* The connection.  A reply is what receiveScpi does with a query: it      *)
(* returns the response line, or raises OntRemoteError (a timeout, a lost  *)
(* connection, an entry in the device's error queue).                      *)

Reply(text) == [ok |-> TRUE, text |-> text]
Failure == [ok |-> FALSE, text |-> <<>>]

\* one use of the connection by a call
Wire(tx, cmd, arg) == [tx |-> tx, cmd |-> cmd, arg |-> arg]

\* how a method ends: the attributes, what it sent, "ok" or the exception, the value
Result(p, wire, out, ret) == [p |-> p, wire |-> wire, out |-> out, ret |-> ret]

---------------------------------------------------------------------------
(* class Parameter.                                                        *)

ParameterInit(opcQuery) ==
    [ type |-> "None", stored |-> None, set |-> "set", get |-> "get",
      formatString |-> IF opcQuery THEN " %s;*OPC?" ELSE " %s",
      txCmd |-> IF opcQuery THEN "receiveScpi" ELSE "sendScpi" ]

ParameterQuery == Wire("receiveScpi", "name?", <<>>)

\* the numeric conversion of _configureType and _getNumeric succeeds
NumericParses(text) == IF Contains(text, ".") THEN FloatParses(text) ELSE IntParses(text)

NumericOf(text) == IF Contains(text, ".") THEN FloatOf(text) ELSE IntV(IntOf(text))

\* mutant: the type is resolved without rebinding set
Parameter_configureTypeUnbound(p, reply) ==
    LET text == reply.text
    IN  IF ~reply.ok THEN Result(p, <<ParameterQuery>>, "OntRemoteError", None)
        ELSE IF NumericParses(text)
        THEN Result([p EXCEPT !.get = "_getNumeric", !.type = NumericOf(text).t],
                    <<ParameterQuery>>, "ok", NumericOf(text))
        ELSE IF Len(text) = 0 THEN Result(p, <<ParameterQuery>>, "IndexError", None)
        ELSE Result([p EXCEPT !.get = "_getString", !.type = "str"],
                    <<ParameterQuery>>, "ok", StrV(text))

Parameter_configureType(p, reply) ==
    LET bound == [p EXCEPT !.set = "_set"]
        text == reply.text
    IN  IF ~reply.ok THEN Result(p, <<ParameterQuery>>, "OntRemoteError", None)
        ELSE IF NumericParses(text)
        THEN Result([bound EXCEPT !.get = "_getNumeric", !.type = NumericOf(text).t],
                    <<ParameterQuery>>, "ok", NumericOf(text))
        ELSE IF Len(text) = 0 THEN Result(bound, <<ParameterQuery>>, "IndexError", None)
        ELSE Result([bound EXCEPT !.set = IF text[1] = Quote THEN "_setScpiString" ELSE "_set",
                                  !.get = "_getString", !.type = "str"],
                    <<ParameterQuery>>, "ok", StrV(text))

\* self._txCmd(cmd)
\* mutant: a write is always handed to sendScpi
ParameterTxNoAck(p, payload, txOk) ==
    Result(p, <<Wire("sendScpi", "name" \o p.formatString, payload)>>,
           IF txOk THEN "ok" ELSE "OntRemoteError", None)

ParameterTx(p, payload, txOk) ==
    Result(p, <<Wire(p.txCmd, "name" \o p.formatString, payload)>>,
           IF txOk THEN "ok" ELSE "OntRemoteError", None)

Parameter_setScpiString(p, value, txOk) ==
    IF value.t # "str" THEN Result(p, <<>>, "AttributeError", None)
    ELSE ParameterTx(p, ScpiQuote(value.s), txOk)

Parameter_set(p, value, txOk) == ParameterTx(p, Format(value), txOk)

\* mutant: the String strategy is never used
BoundSetPlain(p, value, txOk) == Parameter_set(p, value, txOk)

\* self.set(value) once the instance attribute set is bound
BoundSet(p, value, txOk) ==
    IF p.set = "_setScpiString" THEN Parameter_setScpiString(p, value, txOk)
    ELSE Parameter_set(p, value, txOk)

ParameterSet(p, value, reply, txOk) ==
    IF p.type = "None"
    THEN LET probe == Parameter_configureType(p, reply)
             write == BoundSet(probe.p, value, txOk)
         IN  IF probe.out # "ok" THEN probe
             ELSE Result(write.p, probe.wire \o write.wire, write.out, None)
    ELSE Result(p, <<>>, "AssertionError", None)

ParameterGet(p, reply) ==
    IF p.type = "None"
    THEN LET probe == Parameter_configureType(p, reply)
         IN  IF probe.out = "ok" /\ probe.ret.t = "str"
             THEN [probe EXCEPT !.ret = StrV(ScpiUnquote(probe.ret.s))]
             ELSE probe
    ELSE Result(p, <<>>, "AssertionError", None)

Parameter_getString(p, reply) ==
    IF ~reply.ok THEN Result(p, <<ParameterQuery>>, "OntRemoteError", None)
    ELSE IF Len(reply.text) = 0 THEN Result(p, <<ParameterQuery>>, "IndexError", None)
    ELSE Result(p, <<ParameterQuery>>, "ok", StrV(ScpiUnquote(reply.text)))

\* mutant: the getter refreshes the type from the value it read
Parameter_getNumericRetype(p, reply) ==
    IF ~reply.ok THEN Result(p, <<ParameterQuery>>, "OntRemoteError", None)
    ELSE IF ~NumericParses(reply.text) THEN Result(p, <<ParameterQuery>>, "ValueError", None)
    ELSE Result([p EXCEPT !.type = NumericOf(reply.text).t], <<ParameterQuery>>, "ok",
                NumericOf(reply.text))

Parameter_getNumeric(p, reply) ==
    IF ~reply.ok THEN Result(p, <<ParameterQuery>>, "OntRemoteError", None)
    ELSE IF ~NumericParses(reply.text) THEN Result(p, <<ParameterQuery>>, "ValueError", None)
    ELSE Result(p, <<ParameterQuery>>, "ok", NumericOf(reply.text))

\* mutant: the rebinding of set is lost, every set() enters the method of the class
CallSetOfClass(p, value, reply, txOk) == ParameterSet(p, value, reply, txOk)

\* self.set(value): the instance attribute when bound, else the method of the class
CallSet(p, value, reply, txOk) ==
    IF p.set = "set" THEN ParameterSet(p, value, reply, txOk) ELSE BoundSet(p, value, txOk)

\* self.get()
CallGet(p, reply) ==
    CASE p.get = "get" -> ParameterGet(p, reply)
      [] p.get = "_getString" -> Parameter_getString(p, reply)
      [] p.get = "_getNumeric" -> Parameter_getNumeric(p, reply)

ParameterStore(p, reply) ==
    LET got == CallGet(p, reply)
    IN  IF got.out # "ok" THEN got
        ELSE Result([got.p EXCEPT !.stored = got.ret], got.wire, "ok", None)

\* mutant: restore() without the check for a stored value
ParameterRestoreUnchecked(p, reply, txOk) == CallSet(p, p.stored, reply, txOk)

ParameterRestore(p, reply, txOk) ==
    IF p.stored = None THEN Result(p, <<>>, "OntRemoteError", None)
    ELSE CallSet(p, p.stored, reply, txOk)

ParameterType(p, reply) ==
    IF p.type = "None"
    THEN LET got == CallGet(p, reply)
         IN  IF got.out # "ok" THEN got
             ELSE Result([got.p EXCEPT !.type = got.ret.t], got.wire, "ok", TypeV(got.ret.t))
    ELSE Result(p, <<>>, "ok", TypeV(p.type))

\* the query of range(): cmd + ' min;' + cmd + ' max'
RangeQueryPair == Wire("receiveScpi", "name? min;name? max", <<>>)

\* range(): the answer split at ';'; the first token alone decides the type
ParameterRange(p, reply) ==
    LET result == Split(reply.text, ";")
        asFloat == Contains(result[1], ".")
    IN  IF ~reply.ok THEN Result(p, <<RangeQueryPair>>, "OntRemoteError", None)
        ELSE IF asFloat /\ ~FloatParses(result[1]) THEN Result(p, <<RangeQueryPair>>, "ValueError", None)
        ELSE IF ~asFloat /\ ~IntParses(result[1]) THEN Result(p, <<RangeQueryPair>>, "ValueError", None)
        ELSE IF Len(result) < 2 THEN Result(p, <<RangeQueryPair>>, "IndexError", None)
        ELSE IF asFloat /\ ~FloatParses(result[2]) THEN Result(p, <<RangeQueryPair>>, "ValueError", None)
        ELSE IF ~asFloat /\ ~IntParses(result[2]) THEN Result(p, <<RangeQueryPair>>, "ValueError", None)
        ELSE IF asFloat
             THEN Result(p, <<RangeQueryPair>>, "ok", ListV(<<FloatOf(result[1]), FloatOf(result[2])>>))
             ELSE Result(p, <<RangeQueryPair>>, "ok", ListV(<<IntV(IntOf(result[1])), IntV(IntOf(result[2]))>>))

---------------------------------------------------------------------------
(* class BlockParameter.                                                   *)

BlockParameterInit(opcQuery) ==
    [ type |-> "None", stored |-> None, set |-> "set", parseValues |-> "_parseValues",
      postfixString |-> IF opcQuery THEN ";*OPC?" ELSE "",
      txCmd |-> IF opcQuery THEN "receiveScpi" ELSE "sendScpi" ]

BlockQuery == Wire("receiveScpi", "name:BLOC?", <<>>)
WindowQuery(index, length) == Wire("receiveScpi", "name? %d,%d", <<index, length>>)

\* what get() hands to _parseValues: the list of a split response, or the
\* unsplit text of the second query, which Python indexes character by character
SplitList(text) == [isStr |-> FALSE, items |-> Split(text, ",")]
RawText(text) == [isStr |-> TRUE, items |-> [i \in 1..Len(text) |-> <<text[i]>>]]

\* a value given to set(): a scalar becomes a list of one item
AsList(values) == IF values.t = "list" THEN values.s ELSE <<values>>

BlockParameter_configureType(p, item) ==
    LET bound == [p EXCEPT !.set = "_set"]
    IN  IF NumericParses(item)
        THEN Result([bound EXCEPT !.parseValues = "_parseNumericValues", !.type = NumericOf(item).t],
                    <<>>, "ok", None)
        ELSE IF Len(item) = 0 THEN Result(bound, <<>>, "IndexError", None)
        ELSE IF item[1] = Quote
        THEN Result([bound EXCEPT !.set = "_setScpiString", !.parseValues = "_parseStringValues",
                                  !.type = "str"], <<>>, "ok", None)
        ELSE Result([bound EXCEPT !.parseValues = "_parseDiscreteValues", !.type = "str"],
                    <<>>, "ok", None)

\* self._txCmd(cmd) of a vector write
BlockTx(p, index, tokens, txOk) ==
    Result(p, <<Wire(p.txCmd, "name %d,%d" \o p.postfixString, <<index, Len(tokens), tokens>>)>>,
           IF txOk THEN "ok" ELSE "OntRemoteError", None)

\* the token _setScpiString writes for one item
BlockQuoteItem(s) ==
    (IF s[1] # Quote THEN <<Quote>> ELSE <<>>) \o s
    \o (IF s[Len(s)] # Quote THEN <<Quote>> ELSE <<>>)

BlockParameter_setScpiString(p, index, values, txOk) ==
    LET items == AsList(values)
    IN  IF values.t \notin {"list", "str"} THEN Result(p, <<>>, "TypeError", None)
        ELSE IF \E i \in 1..Len(items) : items[i].t # "str"
                    /\ \A j \in 1..(i - 1) : items[j].t = "str" /\ Len(items[j].s) > 0
        THEN Result(p, <<>>, "TypeError", None)
        ELSE IF \E i \in 1..Len(items) : Len(items[i].s) = 0
        THEN Result(p, <<>>, "IndexError", None)
        ELSE BlockTx(p, index, [i \in 1..Len(items) |-> BlockQuoteItem(items[i].s)], txOk)

BlockParameter_set(p, index, values, txOk) ==
    LET items == AsList(values)
    IN  BlockTx(p, index, [i \in 1..Len(items) |-> Format(items[i])], txOk)

BlockBoundSet(p, index, values, txOk) ==
    IF p.set = "_setScpiString" THEN BlockParameter_setScpiString(p, index, values, txOk)
    ELSE BlockParameter_set(p, index, values, txOk)

BlockParameterSet(p, index, values, reply, txOk) ==
    LET probeWire == <<WindowQuery(index, Len(AsList(values)))>>
        probe == BlockParameter_configureType(p, Split(reply.text, ",")[1])
        write == BlockBoundSet(probe.p, index, values, txOk)
    IN  IF ~reply.ok THEN Result(p, probeWire, "OntRemoteError", None)
        ELSE IF probe.out # "ok" THEN Result(probe.p, probeWire, probe.out, None)
        ELSE Result(write.p, probeWire \o write.wire, write.out, None)

BlockCallSet(p, index, values, reply, txOk) ==
    IF p.set = "set" THEN BlockParameterSet(p, index, values, reply, txOk)
    ELSE BlockBoundSet(p, index, values, txOk)

BlockParameter_parseDiscreteValues(p, x) ==
    Result(p, <<>>, "ok",
           IF x.isStr THEN StrV([i \in 1..Len(x.items) |-> x.items[i][1]])
           ELSE ListV([i \in 1..Len(x.items) |-> StrV(x.items[i])]))

BlockParameter_parseStringValues(p, x) ==
    Result(p, <<>>, "ok", ListV([i \in 1..Len(x.items) |-> StrV(StripEnds(x.items[i]))]))

BlockParameter_parseNumericValues(p, x) ==
    IF Len(x.items) = 0 THEN Result(p, <<>>, "IndexError", None)
    ELSE IF Contains(x.items[1], ".")
    THEN IF \A i \in 1..Len(x.items) : FloatParses(x.items[i])
         THEN Result(p, <<>>, "ok", ListV([i \in 1..Len(x.items) |-> FloatOf(x.items[i])]))
         ELSE Result(p, <<>>, "ValueError", None)
    ELSE IF \A i \in 1..Len(x.items) : IntParses(x.items[i])
         THEN Result(p, <<>>, "ok", ListV([i \in 1..Len(x.items) |-> IntV(IntOf(x.items[i]))]))
         ELSE Result(p, <<>>, "ValueError", None)

BlockBoundParse(p, x) ==
    CASE p.parseValues = "_parseNumericValues" -> BlockParameter_parseNumericValues(p, x)
      [] p.parseValues = "_parseStringValues" -> BlockParameter_parseStringValues(p, x)
      [] OTHER -> BlockParameter_parseDiscreteValues(p, x)

BlockParameter_parseValues(p, x) ==
    IF Len(x.items) = 0 THEN Result(p, <<>>, "IndexError", None)
    ELSE LET probe == BlockParameter_configureType(p, x.items[1])
         IN  IF probe.out # "ok" THEN probe ELSE BlockBoundParse(probe.p, x)

BlockCallParse(p, x) ==
    IF p.parseValues = "_parseValues" THEN BlockParameter_parseValues(p, x)
    ELSE BlockBoundParse(p, x)

\* length = -1 stands for length = None
BlockParameterGet(p, index, length, reply, reply2) ==
    LET first == IF length = -1 THEN BlockQuery ELSE WindowQuery(index, length)
        all == Split(reply.text, ",")
        slice == IF length = -1 /\ index > 0 THEN SubSeq(all, index + 1, Len(all)) ELSE all
        again == length = -1 /\ index > 0 /\ Len(slice) = 0
        wire == IF again THEN <<first, WindowQuery(index, 1)>> ELSE <<first>>
        x == IF again THEN RawText(reply2.text) ELSE [isStr |-> FALSE, items |-> slice]
        parsed == BlockCallParse(p, x)
    IN  IF ~reply.ok THEN Result(p, <<first>>, "OntRemoteError", None)
        ELSE IF again /\ ~reply2.ok THEN Result(p, wire, "OntRemoteError", None)
        ELSE Result(parsed.p, wire, parsed.out, parsed.ret)

BlockParameterStore(p, reply) ==
    LET got == BlockParameterGet(p, 0, -1, reply, Failure)
    IN  IF got.out # "ok" THEN got
        ELSE Result([got.p EXCEPT !.stored = got.ret], got.wire, "ok", None)

BlockParameterRestore(p, reply, txOk) ==
    IF p.stored = None THEN Result(p, <<>>, "OntRemoteError", None)
    ELSE BlockCallSet(p, 0, p.stored, reply, txOk)

BlockParameterType(p, reply) ==
    IF p.type = "None"
    THEN LET got == BlockParameterGet(p, 0, 1, reply, Failure)
         IN  IF got.out # "ok" THEN got
             ELSE Result(got.p, got.wire, "ok", TypeV(got.p.type))
    ELSE Result(p, <<>>, "ok", TypeV(p.type))

---------------------------------------------------------------------------
(* What the device answers and what the caller passes.                     *)

NumericTexts == SeqsOver({"1", "."}, 1, NumLen)
QuotedTexts == {<<Quote>> \o c \o <<Quote>> : c \in SeqsOver({"A", Quote}, 0, StrLen)}
DiscreteTexts == {<<"A">>, <<"A", "1">>}
MalformedTexts == {<<>>, <<Quote>>, <<Quote, "A">>}

ParameterReplies ==
    {Failure} \cup {Reply(t) : t \in NumericTexts \cup QuotedTexts \cup DiscreteTexts \cup MalformedTexts}

SetValues == {IntV(10), FloatV(FALSE, 5, 1), StrV(<<"A">>), StrV(<<Quote, "A">>)}

Vectors(elems) == {Join(v, ",") : v \in SeqsOver(elems, 1, BlkLen)}

BlockTexts ==
    Vectors({<<"1">>}) \cup Vectors({<<"1", ".">>}) \cup Vectors({<<"A">>})
    \cup Vectors({<<Quote, Quote>>, <<Quote, "A", Quote>>})
    \cup {<<>>, <<"1", ",", "A">>, <<Quote, "A", ",", "A", Quote>>}

BlockReplies == {Failure} \cup {Reply(t) : t \in BlockTexts}

\* answers to the second, one-element query of get()
SecondReplies == {Failure, Reply(<<"1">>), Reply(<<>>)}

BlockSetValues ==
    {IntV(1), ListV(<<IntV(1), IntV(2)>>), StrV(<<"A">>), ListV(<<StrV(<<"A">>), StrV(<<>>)>>)}

\* answers to the query of range(): two tokens, or a line without ';'
RangeTokens == {<<"1">>, <<"-", "1">>, <<"1", ".">>, <<".", "1">>, <<"A">>}
RangeReplies ==
    {Failure, Reply(<<"1">>)} \cup {Reply(a \o <<";">> \o b) : a \in RangeTokens, b \in RangeTokens}

BlockIndexes == {0, 1}
BlockLengths == {-1, 1}

---------------------------------------------------------------------------
(* The calls.                                                              *)

Pre(p) == [type |-> p.type, set |-> p.set, stored |-> p.stored # None]

Call(op, arg, p, r) ==
    [op |-> op, arg |-> arg, pre |-> Pre(p), wire |-> r.wire, out |-> r.out, ret |-> r.ret]

NoDevice == [text |-> <<>>, schema |-> "absent", version |-> <<0, 0, 0, 0>>]

NoHist == [stored |-> FALSE, reply |-> <<>>, setSince |-> FALSE]

Stored(r, reply) ==
    IF r.out = "ok" THEN [stored |-> TRUE, reply |-> reply.text, setSince |-> FALSE] ELSE hist

Written(r) == IF r.out = "ok" THEN [hist EXCEPT !.setSince = TRUE] ELSE hist

Init ==
    /\ obj \in {"Parameter", "BlockParameter"}
    /\ \E opcQuery \in BOOLEAN :
          par = IF obj = "Parameter" THEN ParameterInit(opcQuery) ELSE BlockParameterInit(opcQuery)
    /\ call = [op |-> "__init__", arg |-> None, pre |-> Pre([type |-> "None", set |-> "set", stored |-> None]),
               wire |-> <<>>, out |-> "ok", ret |-> None]
    /\ hist = NoHist
    /\ dev = NoDevice

Done(op, arg, r) ==
    /\ par' = r.p
    /\ call' = Call(op, arg, par, r)
    /\ UNCHANGED <<obj, dev>>

Get ==
    /\ obj = "Parameter"
    /\ \E reply \in ParameterReplies : Done("get", None, CallGet(par, reply))
    /\ UNCHANGED hist

Set ==
    /\ obj = "Parameter"
    /\ \E value \in SetValues, txOk \in BOOLEAN :
          \E reply \in (IF par.set = "set" THEN ParameterReplies ELSE {Failure}) :
             LET r == CallSet(par, value, reply, txOk)
             IN  Done("set", value, r) /\ hist' = Written(r)

Store ==
    /\ obj = "Parameter"
    /\ \E reply \in ParameterReplies :
          LET r == ParameterStore(par, reply)
          IN  /\ Done("store", None, r)
              /\ hist' = Stored(r, reply)

Restore ==
    /\ obj = "Parameter"
    /\ \E txOk \in BOOLEAN :
          \E reply \in (IF par.set = "set" THEN ParameterReplies ELSE {Failure}) :
             Done("restore", None, ParameterRestore(par, reply, txOk))
    /\ UNCHANGED hist

Type ==
    /\ obj = "Parameter"
    /\ \E reply \in (IF par.type = "None" THEN ParameterReplies ELSE {Failure}) :
          Done("type", None, ParameterType(par, reply))
    /\ UNCHANGED hist

\* how range() ends; the record of the call keeps the device's answer
RangeDone(reply, r) ==
    /\ par' = r.p
    /\ call' = [op |-> "range", arg |-> None,
                pre |-> [type |-> par.type, set |-> par.set, stored |-> par.stored # None, answer |-> reply],
                wire |-> r.wire, out |-> r.out, ret |-> r.ret]
    /\ UNCHANGED <<obj, dev, hist>>

Range ==
    /\ obj = "Parameter"
    /\ \E reply \in RangeReplies : RangeDone(reply, ParameterRange(par, reply))

BlockGet ==
    /\ obj = "BlockParameter"
    /\ \E index \in BlockIndexes, length \in BlockLengths, reply \in BlockReplies :
          \E reply2 \in (IF length = -1 /\ index > 0 /\ reply.ok
                            /\ index >= Len(Split(reply.text, ","))
                         THEN SecondReplies ELSE {Failure}) :
             Done("get", ListV(<<IntV(index), IntV(length)>>),
                  BlockParameterGet(par, index, length, reply, reply2))
    /\ UNCHANGED hist

BlockSet ==
    /\ obj = "BlockParameter"
    /\ \E index \in BlockIndexes, values \in BlockSetValues, txOk \in BOOLEAN :
          \E reply \in (IF par.set = "set" THEN BlockReplies ELSE {Failure}) :
             LET r == BlockCallSet(par, index, values, reply, txOk)
             IN  Done("set", ListV(<<IntV(index), values>>), r) /\ hist' = Written(r)

BlockStore ==
    /\ obj = "BlockParameter"
    /\ \E reply \in BlockReplies :
          LET r == BlockParameterStore(par, reply)
          IN  /\ Done("store", None, r)
              /\ hist' = Stored(r, reply)

BlockRestore ==
    /\ obj = "BlockParameter"
    /\ \E txOk \in BOOLEAN :
          \E reply \in (IF par.set = "set" THEN BlockReplies ELSE {Failure}) :
             Done("restore", None, BlockParameterRestore(par, reply, txOk))
    /\ UNCHANGED hist

BlockType ==
    /\ obj = "BlockParameter"
    /\ \E reply \in (IF par.type = "None" THEN BlockReplies ELSE {Failure}) :
          Done("type", None, BlockParameterType(par, reply))
    /\ UNCHANGED hist

Next ==
    \/ Get \/ Set \/ Store \/ Restore \/ Type \/ Range
    \/ BlockGet \/ BlockSet \/ BlockStore \/ BlockRestore \/ BlockType

Spec == Init /\ [][Next]_vars

---------------------------------------------------------------------------
(* Properties of Parameter and BlockParameter, checked under Spec.         *)

\* the one write of value by a Parameter with the attributes p
IsWriteOf(wire, p, value) ==
    /\ Len(wire) = 1
    /\ wire[1].tx = p.txCmd
    /\ wire[1].cmd = "name" \o p.formatString
    /\ wire[1].arg = IF p.set = "_setScpiString" THEN ScpiQuote(value.s) ELSE Format(value)

\* the value has the type documented for the parameter: a str for a SCPI String
Fits(p, value) == p.set = "_setScpiString" => value.t = "str"

\* C1: once the type of a Parameter is resolved, a get() issues exactly the one
\* query 'name?', a set(v) exactly one write of v and no query, and type() nothing
\* at all, whatever was called before and whatever the device answered.
C1_NoReprobe ==
    (obj = "Parameter" /\ call.pre.type # "None") =>
        /\ call.op \in {"get", "store"} => call.wire = <<ParameterQuery>>
        /\ (call.op = "set" /\ Fits(par, call.arg)) => IsWriteOf(call.wire, par, call.arg)
        /\ call.op = "type" => call.wire = <<>>

C1_Witness ==
    /\ obj = "Parameter" /\ call.pre.type = "str" /\ call.op = "set"
    /\ call.pre.stored /\ par.set = "_setScpiString" /\ call.out = "ok"
    /\ IsWriteOf(call.wire, par, call.arg)

\* C2: a Parameter.set(v) while the type is unresolved first issues the query
\* 'name?' and, when it completes, has issued exactly that query and then one
\* write of v by the strategy of the type just resolved.
C2_SetProbesThenWrites ==
    (obj = "Parameter" /\ call.op = "set" /\ call.pre.type = "None") =>
        /\ Len(call.wire) >= 1 /\ call.wire[1] = ParameterQuery
        /\ call.out = "ok" =>
              /\ par.type # "None" /\ Len(call.wire) = 2
              /\ IsWriteOf(<<call.wire[2]>>, par, call.arg)

\* C3: the resolved type of a Parameter or BlockParameter is never changed by a
\* later call: a call that starts with a resolved type ends with the same type.
C3_TypeIsStable == call.pre.type # "None" => par.type = call.pre.type

C3_Witness ==
    /\ call.pre.type = "int" /\ call.op = "get" /\ call.out = "ok"
    /\ call.ret.t \in {"float", "list"} /\ par.type = "int"
    /\ (call.ret.t = "list" => call.ret.s[1].t = "float")

\* C4: restore() before any store() has completed fails with OntRemoteError and
\* uses the connection for nothing.
C4_RestoreNeedsStore ==
    (call.op = "restore" /\ ~hist.stored) => (call.out = "OntRemoteError" /\ call.wire = <<>>)

C4_Witness ==
    /\ call.op = "restore" /\ ~hist.stored /\ call.pre.type # "None" /\ hist.setSince
    /\ call.out = "OntRemoteError" /\ obj = "BlockParameter"

\* C5: Parameter.restore() after a store() uses the connection for one write
\* only, and the token written denotes the value store() read: the same number
\* for a numeric endpoint, the response text for a discrete one, and for a SCPI
\* String a token that unquotes to the string stored.
C5_RestoreWritesStored ==
    (obj = "Parameter" /\ call.op = "restore" /\ hist.stored) =>
        /\ Len(call.wire) = 1
        /\ call.wire[1].tx = par.txCmd /\ call.wire[1].cmd = "name" \o par.formatString
        /\ IF par.get = "_getNumeric"
           THEN /\ NumericParses(call.wire[1].arg)
                /\ NumericOf(call.wire[1].arg) = NumericOf(hist.reply)
           ELSE IF par.set = "_setScpiString"
           THEN /\ Len(call.wire[1].arg) >= 2 /\ call.wire[1].arg[1] = Quote
                /\ ScpiUnquote(call.wire[1].arg) = ScpiUnquote(hist.reply)
                /\ ScpiUnquote(call.wire[1].arg) = par.stored.s
           ELSE call.wire[1].arg = ScpiUnquote(hist.reply)

C5_Witness ==
    /\ obj = "Parameter" /\ call.op = "restore" /\ hist.stored /\ hist.setSince
    /\ par.set = "_setScpiString" /\ Contains(par.stored.s, Quote)
    /\ call.out = "ok"

\* the values a whole-block response denotes
RECURSIVE UnquoteAll(_)
UnquoteAll(tokens) ==
    IF Len(tokens) = 0 THEN <<>>
    ELSE <<(IF Len(tokens[1]) > 0 THEN ScpiUnquote(tokens[1]) ELSE <<>>)>> \o UnquoteAll(Tail(tokens))

\* C6: BlockParameter.restore() after a store() never fails by itself and issues
\* the one vector write 'name 0,n,v1,...,vn' whose elements denote the n values
\* of the whole-block response that store() read.
C6_BlockRestoreWritesStored ==
    (obj = "BlockParameter" /\ call.op = "restore" /\ hist.stored) =>
        /\ call.out \in {"ok", "OntRemoteError"}
        /\ Len(call.wire) = 1
        /\ call.wire[1].cmd = "name %d,%d" \o par.postfixString
        /\ call.wire[1].arg[1] = 0
        /\ call.wire[1].arg[2] = Len(Split(hist.reply, ","))
        /\ Len(call.wire[1].arg[3]) = Len(Split(hist.reply, ","))
        /\ IF par.parseValues = "_parseNumericValues"
           THEN \A i \in 1..Len(call.wire[1].arg[3]) :
                   NumericOf(call.wire[1].arg[3][i]) = NumericOf(Split(hist.reply, ",")[i])
           ELSE UnquoteAll(call.wire[1].arg[3]) = UnquoteAll(Split(hist.reply, ","))

\* the writes among what the last call sent
IsQuery(w) == w.cmd \in {"name?", "name:BLOC?", "name? %d,%d", "name? min;name? max"}
Writes == SelectSeq(call.wire, LAMBDA w : ~IsQuery(w))

\* the object was constructed with opcQuery on
AckOn == par.txCmd = "receiveScpi"

\* C15: with opcQuery on, every write of a Parameter or BlockParameter (the
\* write replayed after the first type probe and the write of restore()
\* included) is one receiveScpi request that ends in ';*OPC?'; with opcQuery
\* off every write is a sendScpi command without '*OPC?'.
C15_WritesAcknowledged ==
    \A i \in 1..Len(Writes) :
        IF AckOn
        THEN /\ Writes[i].tx = "receiveScpi"
             /\ Writes[i].cmd \in {"name %s;*OPC?", "name %d,%d;*OPC?"}
        ELSE /\ Writes[i].tx = "sendScpi"
             /\ Writes[i].cmd \in {"name %s", "name %d,%d"}

C15_Witness ==
    /\ AckOn /\ obj = "Parameter" /\ call.op = "set" /\ call.pre.type = "None"
    /\ call.out = "ok" /\ Len(call.wire) = 2 /\ Len(Writes) = 1
    /\ Writes[1].cmd = "name %s;*OPC?"

\* the vector write 'name index,count,v1,...,vcount' of the values given
IsBlockWriteOf(w, p, index, values) ==
    /\ w.tx = p.txCmd
    /\ w.cmd = "name %d,%d" \o p.postfixString
    /\ Len(w.arg) = 3 /\ w.arg[1] = index /\ w.arg[2] = Len(AsList(values))
    /\ Len(w.arg[3]) = Len(AsList(values))

\* the values have the type documented for the block: strs for a SCPI String
BlockFits(p, values) ==
    p.set = "_setScpiString" =>
        /\ values.t \in {"list", "str"}
        /\ \A i \in 1..Len(AsList(values)) : AsList(values)[i].t = "str" /\ Len(AsList(values)[i].s) > 0

\* C16: BlockParameter.set(index, values) takes a scalar as a sequence of one;
\* while the type is unresolved it issues the windowed read 'name? index,count'
\* and then the vector write, in that order; once the type is resolved (by a
\* set() or a get()) it issues only the write.
C16_BlockSetProbesOnce ==
    (obj = "BlockParameter" /\ call.op = "set") =>
        LET index  == call.arg.s[1].n
            values == call.arg.s[2]
        IN  IF call.pre.type = "None"
            THEN /\ Len(call.wire) >= 1
                 /\ call.wire[1] = WindowQuery(index, Len(AsList(values)))
                 /\ call.out = "ok" =>
                       /\ Len(call.wire) = 2
                       /\ IsBlockWriteOf(call.wire[2], par, index, values)
            ELSE BlockFits(par, values) =>
                    /\ Len(call.wire) = 1
                    /\ IsBlockWriteOf(call.wire[1], par, index, values)

---------------------------------------------------------------------------
(* Quoting of a SCPI String: a string is written by _setScpiString and the *)
(* token written is read back by _getString.                               *)

QuotedStrings == SeqsOver({"A", ",", Quote}, 0, QuoteLen)

\* a Parameter after a first response in quotes
StringParameter ==
    [ParameterInit(FALSE) EXCEPT !.type = "str", !.set = "_setScpiString", !.get = "_getString"]

InitQuoting ==
    /\ obj = "Parameter"
    /\ par = StringParameter
    /\ \E s \in QuotedStrings :
          call = [op |-> "__init__", arg |-> StrV(s), pre |-> Pre(StringParameter),
                  wire |-> <<>>, out |-> "ok", ret |-> None]
    /\ hist = NoHist
    /\ dev = NoDevice

WriteString ==
    /\ call.op = "__init__"
    /\ Done("set", call.arg, CallSet(par, call.arg, Failure, TRUE))
    /\ UNCHANGED hist

ReadString ==
    /\ call.op = "set"
    /\ Done("get", call.arg, CallGet(par, Reply(call.wire[1].arg)))
    /\ UNCHANGED hist

NextQuoting == WriteString \/ ReadString

SpecQuoting == InitQuoting /\ [][NextQuoting]_vars

\* C7: the token the string write builds for s is decoded by the string read
\* back to s, for every s, quotes at either end or inside included.
C7_QuotingRoundTrips == call.op = "get" => (call.out = "ok" /\ call.ret = call.arg)

C7_Witness ==
    /\ call.op = "get" /\ call.ret = call.arg /\ Len(call.arg.s) >= 3
    /\ call.arg.s[1] = Quote /\ call.arg.s[Len(call.arg.s)] = Quote
    /\ \E i \in 2..(Len(call.arg.s) - 1) : call.arg.s[i] = Quote /\ call.arg.s[i + 1] = Quote

---------------------------------------------------------------------------
(* _decodeResult, class Result and ResultGroup.get.                        *)

\* (valid, value) or the exception
Decoded(out, valid, value) == [out |-> out, valid |-> valid, value |-> value]

\* mutant: the value is decoded whatever the flag says
DecodeResultAnyFlag(result) ==
    LET parts == Split(result, ",")
        value == parts[2]
    IN  IF Len(parts) # 2 THEN Decoded("OntRemoteError", FALSE, None)
        ELSE IF ~IntParses(parts[1]) THEN Decoded("OntRemoteError", FALSE, None)
        ELSE IF NumericParses(value) THEN Decoded("ok", IntOf(parts[1]) = 1, NumericOf(value))
        ELSE IF Len(value) = 0 THEN Decoded("IndexError", FALSE, None)
        ELSE Decoded("ok", IntOf(parts[1]) = 1,
                     StrV(IF value[1] = Quote THEN StripEnds(value) ELSE value))

DecodeResult(result) ==
    LET parts == Split(result, ",")
        value == parts[2]
    IN  IF Len(parts) # 2 THEN Decoded("OntRemoteError", FALSE, None)
        ELSE IF ~IntParses(parts[1]) THEN Decoded("OntRemoteError", FALSE, None)
        ELSE IF IntOf(parts[1]) # 1 THEN Decoded("ok", FALSE, None)
        ELSE IF NumericParses(value) THEN Decoded("ok", TRUE, NumericOf(value))
        ELSE IF Len(value) = 0 THEN Decoded("IndexError", FALSE, None)
        ELSE Decoded("ok", TRUE, StrV(IF value[1] = Quote THEN StripEnds(value) ELSE value))

ResultInit == [type |-> "None", set |-> "set", stored |-> None]

ResultRead(p, query, reply) ==
    LET d == DecodeResult(reply.text)
    IN  IF ~reply.ok THEN Result(p, <<query>>, "OntRemoteError", None)
        ELSE Result(p, <<query>>, d.out, IF d.out = "ok" /\ d.valid THEN d.value ELSE None)

ResultGet(p, reply) == ResultRead(p, Wire("receiveScpi", "name?", <<>>), reply)

ResultFinal(p, reply) == ResultRead(p, Wire("receiveScpi", ":SENS:DATA:FIN? \"name\"", <<>>), reply)

\* the slots of ResultGroup.get from the slot at index on; s holds (name, value) pairs
RECURSIVE GroupSlots(_, _, _)
GroupSlots(nameList, slots, index) ==
    IF index > Len(nameList) THEN [out |-> "ok", pairs |-> <<>>]
    ELSE IF index > Len(slots) THEN [out |-> "IndexError", pairs |-> <<>>]
    ELSE LET d == DecodeResult(slots[index])
             rest == GroupSlots(nameList, slots, index + 1)
         IN  IF d.out # "ok" THEN [out |-> d.out, pairs |-> <<>>]
             ELSE IF rest.out # "ok" THEN rest
             ELSE [out |-> "ok",
                   pairs |-> <<ListV(<<StrV(nameList[index][1]), IF d.valid THEN d.value ELSE None>>)>>
                             \o rest.pairs]

\* g: [cmd, nameList, names], cmd the text of the compound query, nameList the
\* (name, sub-query) pairs
ResultGroupGet(g, reply) ==
    LET query == Wire("receiveScpi", "%s", g.cmd)
        got == GroupSlots(g.nameList, Split(reply.text, ";"), 1)
    IN  IF g.cmd = <<>> THEN Result(g, <<>>, "OntRemoteError", None)
        ELSE IF ~reply.ok THEN Result(g, <<query>>, "OntRemoteError", None)
        ELSE Result(g, <<query>>, got.out, IF got.out = "ok" THEN ListV(got.pairs) ELSE None)

FlagTexts == SeqsOver({"0", "1", "2", "-", "A"}, 0, FlagLen)
ValueTexts == SeqsOver({"9", ".", Quote}, 0, ValLen)

ResultTexts ==
    {f \o <<",">> \o v : f \in FlagTexts, v \in ValueTexts}
    \cup {<<>>, <<"1">>, <<"1", ",", "9", ",", "9">>}

InitResults ==
    /\ obj \in {"Result", "ResultGroup"}
    /\ par = IF obj = "Result" THEN ResultInit
             ELSE [cmd |-> <<":", "A", "?", ";", ":", "B", "?">>,
                   nameList |-> <<<<<<"a">>, <<":", "A", "?">>>>, <<<<"b">>, <<":", "B", "?">>>>>>,
                   names |-> {<<"a">>, <<"b">>},
                   type |-> "None", set |-> "set", stored |-> None]
    /\ call = [op |-> "__init__", arg |-> None, pre |-> Pre(ResultInit),
               wire |-> <<>>, out |-> "ok", ret |-> None]
    /\ hist = NoHist
    /\ \E text \in ResultTexts : dev = [NoDevice EXCEPT !.text = text]

\* what a call was answered: the response line, or None when receiveScpi raised
Answer(ok) == IF ok THEN StrV(dev.text) ELSE None

ResultGetCall ==
    /\ obj = "Result"
    /\ \E ok \in BOOLEAN :
          Done("get", Answer(ok), ResultGet(par, IF ok THEN Reply(dev.text) ELSE Failure))
    /\ UNCHANGED hist

ResultFinalCall ==
    /\ obj = "Result"
    /\ \E ok \in BOOLEAN :
          Done("final", Answer(ok), ResultFinal(par, IF ok THEN Reply(dev.text) ELSE Failure))
    /\ UNCHANGED hist

\* the device's answer fills the first slot; the second slot is a valid 9
ResultGroupGetCall ==
    /\ obj = "ResultGroup"
    /\ \E ok \in BOOLEAN :
          Done("get", Answer(ok),
               ResultGroupGet(par, IF ok THEN Reply(dev.text \o <<";", "1", ",", "9">>) ELSE Failure))
    /\ UNCHANGED hist

NextResults == ResultGetCall \/ ResultFinalCall \/ ResultGroupGetCall

SpecResults == InitResults /\ [][NextResults]_vars

\* the two tokens of the device's answer, when it has exactly two
TwoTokens == Len(Split(dev.text, ",")) = 2
FlagToken == Split(dev.text, ",")[1]

\* the last call read the device's answer
ReadAnswer == call.op \in {"get", "final"} /\ call.arg # None

\* what the last call made of the answer: the value of Result.get / final, the
\* value under the first name of ResultGroup.get
Yielded == IF obj = "Result" THEN call.ret ELSE call.ret.s[1].s[2]

\* C9: a response 'flag,value' whose flag is the integer 0 decodes to
\* (valid = false, value absent) whatever the value token is; Result.get(),
\* Result.final() and the slot of ResultGroup.get() yield None for it.
C9_InvalidDecodesToNone ==
    (TwoTokens /\ IntParses(FlagToken) /\ IntOf(FlagToken) = 0) =>
        /\ DecodeResult(dev.text) = Decoded("ok", FALSE, None)
        /\ ReadAnswer => (call.out = "ok" /\ Yielded = None)

C9_Witness ==
    /\ TwoTokens /\ IntParses(FlagToken) /\ IntOf(FlagToken) = 0
    /\ Split(dev.text, ",")[2] = <<"9", "9">>
    /\ obj = "ResultGroup" /\ ReadAnswer /\ call.out = "ok" /\ Yielded = None

\* C10: a response 'flag,value' whose flag is anything but the integer 0 or
\* the integer 1 makes the read fail with OntRemoteError; nothing is returned.
C10_FlagMustBeZeroOrOne ==
    (ReadAnswer /\ TwoTokens /\ ~(IntParses(FlagToken) /\ IntOf(FlagToken) \in {0, 1})) =>
        call.out = "OntRemoteError"

---------------------------------------------------------------------------
(* class EventList.  The device holds avail unread records from the read   *)
(* position first on; a successful page fetch of k records moves first by k.*)

EventList_decodeMinVersion == <<37, 0, 2>>

\* tuple comparison a >= b of Python
RECURSIVE TupleGE(_, _)
TupleGE(a, b) ==
    IF Len(b) = 0 THEN TRUE
    ELSE IF Len(a) = 0 THEN FALSE
    ELSE IF a[1] # b[1] THEN a[1] > b[1]
    ELSE TupleGE(Tail(a), Tail(b))

EventListInit(enableDecoding) ==
    [maxNumberPerCmd |-> 100, decoder |-> "None", enableDecoding |-> enableDecoding,
     decode |-> "_decodeInit", strict |-> FALSE, name |-> <<"n", "a", "m", "e">>]

Min(a, b) == IF a < b THEN a ELSE b

\* how a step inside a method ends: the attributes, what it sent, "ok" or the exception
Step(p, wire, out) == [p |-> p, wire |-> wire, out |-> out]

\* the name of the FORM parameter of an event list: formParaName of _getFormParameter
EventList_getFormParameter(eventListName) ==
    LET scpiNodes == Split(eventListName, ":")
        kept == IF scpiNodes[Len(scpiNodes)] \in {<<"S", "E", "C">>, <<"M", "I", "N">>, <<"H", "O", "U", "R">>}
                THEN SubSeq(scpiNodes, 1, Len(scpiNodes) - 1) ELSE scpiNodes
    IN  Join(Append(kept, <<"F", "O", "R", "M">>), ":")

\* mutant: the decoder is built whatever the version and the enable flag are
EventList_buildDecoderUngated(e, d) ==
    LET none  == [e EXCEPT !.decoder = "None"]
        exist == Wire("receiveScpi", "*EXIST? \"%s\"", EventList_getFormParameter(e.name))
        form  == Wire("receiveScpi", "%s?", EventList_getFormParameter(e.name))
    IN  IF d.schema = "absent" THEN Step(none, <<exist>>, "ok")
        ELSE IF d.schema = "garbled" THEN Step(none, <<exist, form>>, "ValueError")
        ELSE IF d.schema = "broken" THEN Step(none, <<exist, form>>, "OntRemoteError")
        ELSE Step([e EXCEPT !.decoder = "built"], <<exist, form>>, "ok")

\* d: the device; the FORM parameter exists unless the schema is absent; a
\* garbled schema is no JSON text, a broken one lacks what the decoder needs
EventList_buildDecoder(e, d) ==
    LET none  == [e EXCEPT !.decoder = "None"]
        exist == Wire("receiveScpi", "*EXIST? \"%s\"", EventList_getFormParameter(e.name))
        form  == Wire("receiveScpi", "%s?", EventList_getFormParameter(e.name))
    IN  IF ~(e.enableDecoding /\ TupleGE(d.version, EventList_decodeMinVersion))
        THEN Step(none, <<>>, "ok")
        ELSE IF d.schema = "absent" THEN Step(none, <<exist>>, "ok")
        ELSE IF d.schema = "garbled" THEN Step(none, <<exist, form>>, "ValueError")
        ELSE IF d.schema = "broken" THEN Step(none, <<exist, form>>, "OntRemoteError")
        ELSE Step([e EXCEPT !.decoder = "built"], <<exist, form>>, "ok")

EventList_decodeInit(e, d) ==
    LET b == EventList_buildDecoder(e, d)
    IN  IF b.out # "ok" THEN b
        ELSE Step([b.p EXCEPT !.decode = IF b.p.decoder = "built" THEN "_decodeEvent"
                                          ELSE "_decodeEmpty"],
                  b.wire, "ok")

\* self._decode(event) for the first event of a page
EventListDecode(e, d) ==
    IF e.decode = "_decodeInit" THEN EventList_decodeInit(e, d) ELSE Step(e, <<>>, "ok")

\* the device's answer to the page-th page query of a call, asked for requested
\* records with unread records left: whether it arrives, its first token, the
\* number of its tokens and the number of records it takes from the list
PageReply(d, page, requested, unread) ==
    LET sent == Min(requested, unread)
        full == [ok |-> TRUE, head |-> NatText(sent), width |-> 1 + 25 * sent, sent |-> sent]
    IN  IF d.fault.at # page \/ d.fault.kind = "none" THEN full
        ELSE IF d.fault.kind = "transport" THEN [full EXCEPT !.ok = FALSE, !.sent = 0]
        ELSE IF d.fault.kind = "head" THEN [full EXCEPT !.head = <<"A">>]
        ELSE IF d.fault.kind = "count"
             THEN [full EXCEPT !.head = NatText(sent - 1), !.width = 1 + 25 * (sent - 1),
                               !.sent = sent - 1]
        ELSE IF d.fault.kind = "lead" THEN [full EXCEPT !.head = NatText(sent + 1)]
        ELSE [full EXCEPT !.width = 25 * sent]

\* the id of the record at position k of the device's list
RecordId(k) == k % 2

EventList_nsecPerSec == 1000000000
EventList_nsecPerMsec == 1000000

\* a Python int beyond the integers of the checker: hi * 10^9 + lo, 0 <= lo < 10^9
BigV(hi, lo) ==
    [t |-> "int", n |-> lo % EventList_nsecPerSec, neg |-> FALSE,
     e |-> hi + (lo \div EventList_nsecPerSec), s |-> <<>>]

\* the six duration tokens of a record are integers
DurationParses(t) == \A i \in 1..6 : IntParses(t[i])

\* mutant: the hours are not scaled with the days
DurationFlat(t) ==
    BigV(((IntOf(t[1]) * 24 + IntOf(t[2]) * 60) + IntOf(t[3])) * 60 + IntOf(t[4]),
         IntOf(t[5]) * EventList_nsecPerMsec + IntOf(t[6]))

\* durationValue of tokens res[ii+18] .. res[ii+23]: seconds scaled by
\* _nsecPerSec, plus milliseconds scaled by _nsecPerMsec, plus nanoseconds
Duration(t) ==
    BigV((((((IntOf(t[1]) * 24) + IntOf(t[2])) * 60) + IntOf(t[3])) * 60) + IntOf(t[4]),
         (IntOf(t[5]) * EventList_nsecPerMsec) + IntOf(t[6]))

\* the event dictionary of the record at position k after self._decode: its
\* id, its duration and, from a built decoder, the decoded fields
Event(e, durationValue, k) ==
    ListV(<<IntV(RecordId(k)), durationValue>>
          \o IF e.decode = "_decodeEvent" /\ e.decoder = "built" THEN <<StrV(<<"eventID">>)>>
             ELSE <<>>)

\* filter: None, or an event id
Passes(filter, event) == filter = None \/ event.s[1] = filter

\* mutant: every page asks for the maximum
PerCallCountFull(e, number) == e.maxNumberPerCmd

PerCallCount(e, number) == Min(number, e.maxNumberPerCmd)

\* how get() ends: as Result, and the records taken from the device's list
Got(p, wire, out, ret, taken) == [p |-> p, wire |-> wire, out |-> out, ret |-> ret, taken |-> taken]

\* mutant: only the leading count of a page is compared
PageFitsCountOnly(reply, perCallCount) == IntOf(reply.head) = perCallCount

\* a page passes the two checks of get(): its leading count and its number of tokens
PageFits(reply, perCallCount) ==
    IntOf(reply.head) = perCallCount /\ reply.width = 1 + 25 * perCallCount

\* the while loop of get() from its page-th turn on
RECURSIVE EventListGetLoop(_, _, _, _, _, _, _, _)
EventListGetLoop(e, d, number, page, filter, wire, result, taken) ==
    IF number <= 0 THEN Got(e, wire, "ok", ListV(result), taken)
    ELSE LET perCallCount == PerCallCount(e, number)
             query == Wire("receiveScpi", "name? %d", NatText(perCallCount))
             reply == PageReply(d, page, perCallCount, d.avail - taken)
             dec   == EventListDecode(e, d)
             durationValue == Duration(d.duration)
             events == [i \in 1..perCallCount |-> Event(dec.p, durationValue, d.first + taken + i - 1)]
         IN  IF ~reply.ok THEN Got(e, wire \o <<query>>, "OntRemoteError", None, taken)
             ELSE IF ~IntParses(reply.head)
                  THEN Got(e, wire \o <<query>>, "ValueError", None, taken + reply.sent)
             ELSE IF ~PageFits(reply, perCallCount)
                  THEN Got(e, wire \o <<query>>, "OntRemoteError", None, taken + reply.sent)
             ELSE IF ~DurationParses(d.duration)
                  THEN Got(e, wire \o <<query>>, "ValueError", None, taken + reply.sent)
             ELSE IF dec.out # "ok"
                  THEN Got(dec.p, wire \o <<query>> \o dec.wire, dec.out, None, taken + reply.sent)
             ELSE EventListGetLoop(dec.p, d, number - perCallCount, page + 1, filter,
                                   wire \o <<query>> \o dec.wire,
                                   result \o SelectSeq(events, LAMBDA ev : Passes(filter, ev)),
                                   taken + reply.sent)

\* the answer to 'name:NUMB?'
NumbReply(d) ==
    IF d.fault.at # 0 \/ d.fault.kind = "none" THEN Reply(NatText(d.avail))
    ELSE IF d.fault.kind = "transport" THEN Failure
    ELSE Reply(<<"A">>)

EventListGet(e, d, number, filter) ==
    LET numb  == Wire("receiveScpi", "name:NUMB?", <<>>)
        reply == NumbReply(d)
    IN  IF ~reply.ok THEN Got(e, <<numb>>, "OntRemoteError", None, 0)
        ELSE IF ~IntParses(reply.text) THEN Got(e, <<numb>>, "ValueError", None, 0)
        ELSE EventListGetLoop(e, d, Min(number, IntOf(reply.text)), 1, filter, <<numb>>, <<>>, 0)

\* the while loop of skip() from its page-th turn on; the answers are not looked at
RECURSIVE EventListSkipLoop(_, _, _, _, _, _, _)
EventListSkipLoop(e, d, number, page, wire, skipCount, taken) ==
    IF number <= 0 THEN Got(e, wire, "ok", IntV(skipCount), taken)
    ELSE LET perCallCount == PerCallCount(e, number)
             query == Wire("receiveScpi", "name? %d", NatText(perCallCount))
             reply == PageReply(d, page, perCallCount, d.avail - taken)
         IN  IF ~reply.ok THEN Got(e, wire \o <<query>>, "OntRemoteError", None, taken)
             ELSE EventListSkipLoop(e, d, number - perCallCount, page + 1, wire \o <<query>>,
                                    skipCount + perCallCount, taken + reply.sent)

EventListSkip(e, d, number) ==
    LET numb  == Wire("receiveScpi", "name:NUMB?", <<>>)
        reply == NumbReply(d)
    IN  IF number < 1 THEN Got(e, <<>>, "ok", IntV(number), 0)
        ELSE IF ~reply.ok THEN Got(e, <<numb>>, "OntRemoteError", None, 0)
        ELSE IF ~IntParses(reply.text) THEN Got(e, <<numb>>, "ValueError", None, 0)
        ELSE EventListSkipLoop(e, d, Min(number, IntOf(reply.text)), 1, <<numb>>, 0, 0)

\* additionalInfo(): the merged list of field names (not modelled further) or None
EventListAdditionalInfo(e, d) ==
    LET b == EventList_buildDecoder(e, d)
    IN  IF b.out # "ok" THEN Got(b.p, b.wire, b.out, None, 0)
        ELSE Got(b.p, b.wire, "ok", IF b.p.decoder = "built" THEN ListV(<<>>) ELSE None, 0)

\* resetReadPosition()
EventListResetReadPosition(e, txOk) ==
    Got(e, <<Wire("sendScpi", "name:FIRS", <<>>)>>, IF txOk THEN "ok" ELSE "OntRemoteError", None, 0)

\* next(): the event of one record, or the empty dictionary at the end of the list
EventListNext(e, d) ==
    LET numb  == Wire("receiveScpi", "name:NUMB?", <<>>)
        query == Wire("receiveScpi", "name? %d", NatText(1))
        count == NumbReply(d)
        reply == PageReply(d, 1, 1, d.avail)
        dec   == EventListDecode(e, d)
    IN  IF ~count.ok THEN Got(e, <<numb>>, "OntRemoteError", None, 0)
        ELSE IF ~IntParses(count.text) THEN Got(e, <<numb>>, "ValueError", None, 0)
        ELSE IF ~(IntOf(count.text) > 0) THEN Got(e, <<numb>>, "ok", ListV(<<>>), 0)
        ELSE IF ~reply.ok THEN Got(e, <<numb, query>>, "OntRemoteError", None, 0)
        ELSE IF reply.width # 26 THEN Got(e, <<numb, query>>, "OntRemoteError", None, reply.sent)
        ELSE IF ~IntParses(reply.head) THEN Got(e, <<numb, query>>, "ValueError", None, reply.sent)
        ELSE IF IntOf(reply.head) # 1 THEN Got(e, <<numb, query>>, "OntRemoteError", None, reply.sent)
        ELSE IF ~DurationParses(d.duration)
             THEN Got(e, <<numb, query>>, "ValueError", None, reply.sent)
        ELSE IF dec.out # "ok" THEN Got(dec.p, <<numb, query>> \o dec.wire, dec.out, None, reply.sent)
        ELSE Got(dec.p, <<numb, query>> \o dec.wire, "ok", Event(dec.p, Duration(d.duration), d.first), reply.sent)

---------------------------------------------------------------------------
(* The specification of an EventList read from a device whose list, schema, *)
(* version and fault are drawn at the start.                                *)

MaxPerCmd == EventListInit(TRUE).maxNumberPerCmd

EventNumbers == {-1} \cup {q * MaxPerCmd + r : q \in 0..EventPages, r \in {0, 1, 50}}

EventAvail == {q * MaxPerCmd + r : q \in 0..EventPages, r \in {0, 80}}

EventFaults ==
    {[kind |-> "none", at |-> 0]}
    \cup {[kind |-> k, at |-> 0] : k \in {"transport", "head"}}
    \cup {[kind |-> k, at |-> a] : k \in {"transport", "head", "count", "width"}, a \in 1..EventPages}
    \cup {[kind |-> "lead", at |-> 1]}

EventVersions == {<<36, 9, 9, 1>>, <<37, 0, 2, 0>>}

EventFilters == {None, IntV(1)}

InitEvents ==
    /\ obj = "EventList"
    /\ \E enableDecoding \in BOOLEAN : par = EventListInit(enableDecoding)
    /\ call = [op |-> "__init__", arg |-> None, pre |-> None, wire |-> <<>>, out |-> "ok", ret |-> None]
    /\ hist = NoHist
    /\ \E avail \in EventAvail, fault \in EventFaults, version \in EventVersions,
          schema \in {"absent", "valid", "broken", "garbled"} :
          dev = [text |-> <<>>, schema |-> schema, version |-> version,
                 avail |-> avail, first |-> 0, fault |-> fault,
                 duration |-> <<<<"1">>, <<"2">>, <<"3">>, <<"4">>, <<"5">>, <<"6">>>>]

\* how a call on the list ends: the list, the record of the call, the device
ListDone(op, arg, r) ==
    /\ par' = r.p
    /\ call' = [op |-> op, arg |-> arg, pre |-> IntV(dev.avail), wire |-> r.wire, out |-> r.out, ret |-> r.ret]
    /\ dev' = [dev EXCEPT !.avail = @ - r.taken, !.first = @ + r.taken]
    /\ UNCHANGED <<obj, hist>>

\* get(number, filter) on an EventList not used before
EventGet ==
    /\ call.op = "__init__"
    /\ \E number \in EventNumbers, filter \in EventFilters :
          ListDone("get", ListV(<<IntV(number), filter>>), EventListGet(par, dev, number, filter))

\* skip(number) on an EventList not used before
EventSkip ==
    /\ call.op = "__init__"
    /\ \E number \in EventNumbers :
          ListDone("skip", ListV(<<IntV(number)>>), EventListSkip(par, dev, number))

NextEvents == EventGet \/ EventSkip

SpecEvents == InitEvents /\ [][NextEvents]_vars

RECURSIVE SumSeq(_)
SumSeq(q) == IF Len(q) = 0 THEN 0 ELSE q[1] + SumSeq(Tail(q))

\* the page queries of the last call, in order, and the sizes they ask for
PageFetches == SelectSeq(call.wire, LAMBDA w : w.cmd = "name? %d")
PageSizes == [i \in 1..Len(PageFetches) |-> IntOf(PageFetches[i].arg)]

\* the count get() is to read: min(n, a)
ToRead == Min(call.arg.s[1].n, call.pre.n)

\* the device answers every query as asked and its schema, if used, is sound
WellBehaved ==
    /\ dev.fault.kind = "none"
    /\ ~(par.enableDecoding /\ TupleGE(dev.version, <<37, 0, 2>>)
          /\ dev.schema \in {"broken", "garbled"})

\* C8: get(n) reads the available count a first; against a well-behaved
\* device it then issues exactly ceil(min(n, a) / 100) page queries, each for
\* at most 100 records, the sizes summing to min(n, a); with min(n, a) <= 0 it
\* issues none and returns the empty list.  A call that fails has issued no
\* more page queries than that.
C8_PagesCoverTheCount ==
    call.op = "get" =>
        /\ call.wire[1].cmd = "name:NUMB?"
        /\ \A i \in 1..Len(PageSizes) : PageSizes[i] \in 1..100
        /\ Len(PageFetches) <= (IF ToRead <= 0 THEN 0 ELSE (ToRead + 99) \div 100)
        /\ WellBehaved =>
              /\ call.out = "ok"
              /\ Len(PageFetches) = (IF ToRead <= 0 THEN 0 ELSE (ToRead + 99) \div 100)
              /\ SumSeq(PageSizes) = (IF ToRead <= 0 THEN 0 ELSE ToRead)
              /\ ToRead <= 0 => call.ret = ListV(<<>>)

C8_Witness ==
    /\ call.op = "get" /\ call.out = "ok"
    /\ call.arg.s[1].n = 250 /\ call.pre.n = 180
    /\ PageSizes = <<100, 80>>

---------------------------------------------------------------------------
(* classes BlockResult and ExtendedBlockResult.                            *)

\* how _readValues ends: "ok" or the exception, the envelope flag, the values
Values(out, valid, values) == [out |-> out, valid |-> valid, values |-> values]

\* the items of a BlockResult response after the count
BlockResultItems(rest) ==
    IF Len(rest) = 0 THEN Values("ok", TRUE, <<>>)
    ELSE IF Contains(rest[1], ".") /\ \A i \in 1..Len(rest) : FloatParses(rest[i])
    THEN Values("ok", TRUE, [i \in 1..Len(rest) |-> FloatOf(rest[i])])
    ELSE IF ~Contains(rest[1], ".") /\ \A i \in 1..Len(rest) : IntParses(rest[i])
    THEN Values("ok", TRUE, [i \in 1..Len(rest) |-> IntV(IntOf(rest[i]))])
    ELSE IF Len(rest[1]) = 0 THEN Values("IndexError", FALSE, <<>>)
    ELSE IF rest[1][1] = Quote
    THEN Values("ok", TRUE, [i \in 1..Len(rest) |-> StrV(StripEnds(rest[i]))])
    ELSE Values("ok", TRUE, [i \in 1..Len(rest) |-> StrV(rest[i])])

\* the raise for an inconsistent count hands the format string one argument
\* for its three placeholders: Python raises TypeError in its place
BlockResult_readValues(text) ==
    LET tokens == Split(text, ",")
        rest   == Tail(tokens)
    IN  IF ~IntParses(tokens[1]) THEN Values("OntRemoteError", FALSE, <<>>)
        ELSE IF ~(IntOf(tokens[1]) > -1) THEN Values("ok", FALSE, <<>>)
        ELSE IF IntOf(tokens[1]) # Len(rest) THEN Values("TypeError", FALSE, <<>>)
        ELSE BlockResultItems(rest)

\* mutant: the value of an element is decoded whatever its flag says
ExtendedItemAnyFlag(flag, value) ==
    IF ~IntParses(flag) THEN [out |-> "TypeError", value |-> None]
    ELSE IF NumericParses(value) THEN [out |-> "ok", value |-> NumericOf(value)]
    ELSE IF Len(value) = 0 THEN [out |-> "IndexError", value |-> None]
    ELSE [out |-> "ok", value |-> StrV(IF value[1] = Quote THEN StripEnds(value) ELSE value)]

\* one element of an ExtendedBlockResult response: its flag and its value; the
\* raise for a flag that is no integer fails in the same way, with TypeError
ExtendedItem(flag, value) ==
    IF ~IntParses(flag) THEN [out |-> "TypeError", value |-> None]
    ELSE IF IntOf(flag) # 1 THEN [out |-> "ok", value |-> None]
    ELSE IF NumericParses(value) THEN [out |-> "ok", value |-> NumericOf(value)]
    ELSE IF Len(value) = 0 THEN [out |-> "IndexError", value |-> None]
    ELSE [out |-> "ok", value |-> StrV(IF value[1] = Quote THEN StripEnds(value) ELSE value)]

\* int(len(values) / 2)
Half(n) == n \div 2

ExtendedBlockResult_readValues(text) ==
    LET tokens == Split(text, ",")
        rest   == Tail(tokens)
        count  == IntOf(tokens[1])
        items  == [i \in 1..count |-> ExtendedItem(rest[2 * i - 1], rest[2 * i])]
        bad    == {i \in 1..count : items[i].out # "ok"}
    IN  IF ~IntParses(tokens[1]) THEN Values("OntRemoteError", FALSE, <<>>)
        ELSE IF ~(count > -1) THEN Values("ok", FALSE, <<>>)
        ELSE IF count # Half(Len(rest)) THEN Values("OntRemoteError", TRUE, <<>>)
        ELSE IF bad # {}
        THEN Values(items[CHOOSE i \in bad : \A j \in bad : i <= j].out, TRUE, <<>>)
        ELSE Values("ok", TRUE, [i \in 1..count |-> items[i].value])

ReadValues(class, text) ==
    IF class = "BlockResult" THEN BlockResult_readValues(text)
    ELSE ExtendedBlockResult_readValues(text)

\* the queries of the two classes
WholeQuery(class) ==
    Wire("receiveScpi", IF class = "BlockResult" THEN "name:BLOC?" ELSE "name:EBLOC?", <<>>)
RangeQuery(class, index, length) ==
    Wire("receiveScpi", IF class = "BlockResult" THEN "name? %d,%d" ELSE "name:ERANG? %d,%d",
         <<index, length>>)
FinalQuery == Wire("receiveScpi", ":SENS:DATA:FIN? \"name\"", <<>>)
LengthQuery == Wire("receiveScpi", "name:LENG?", <<>>)

\* mutant: an empty slice is returned as it is
BlockResultGetNoRequery(class, p, index, length, reply, reply2) ==
    LET first == IF length = -1 THEN WholeQuery(class) ELSE RangeQuery(class, index, length)
        read  == ReadValues(class, reply.text)
        slice == IF length = -1 /\ index > 0
                 THEN SubSeq(read.values, index + 1, Len(read.values)) ELSE read.values
    IN  IF ~reply.ok THEN Result(p, <<first>>, "OntRemoteError", None)
        ELSE IF read.out # "ok" THEN Result(p, <<first>>, read.out, None)
        ELSE IF ~read.valid THEN Result(p, <<first>>, "ok", None)
        ELSE Result(p, <<first>>, "ok", ListV(slice))

\* get(index, length) of either class; length = -1 stands for length = None
BlockResultGet(class, p, index, length, reply, reply2) ==
    LET first == IF length = -1 THEN WholeQuery(class) ELSE RangeQuery(class, index, length)
        again == RangeQuery(class, index, 1)
        read  == ReadValues(class, reply.text)
        slice == IF length = -1 /\ index > 0
                 THEN SubSeq(read.values, index + 1, Len(read.values)) ELSE read.values
    IN  IF ~reply.ok THEN Result(p, <<first>>, "OntRemoteError", None)
        ELSE IF read.out # "ok" THEN Result(p, <<first>>, read.out, None)
        ELSE IF ~read.valid THEN Result(p, <<first>>, "ok", None)
        ELSE IF length = -1 /\ index > 0 /\ Len(slice) = 0
        THEN IF reply2.ok THEN Result(p, <<first, again>>, "ok", StrV(reply2.text))
             ELSE Result(p, <<first, again>>, "OntRemoteError", None)
        ELSE Result(p, <<first>>, "ok", ListV(slice))

\* final(index, length) of either class; the raise for an empty window hands
\* the format string one argument for two placeholders: TypeError
BlockResultFinal(class, p, index, length, reply) ==
    LET read   == ReadValues(class, reply.text)
        from   == IF index > 0 THEN SubSeq(read.values, index + 1, Len(read.values))
                  ELSE read.values
        window == IF length # -1 /\ length < Len(from) THEN SubSeq(from, 1, length) ELSE from
    IN  IF ~reply.ok THEN Result(p, <<FinalQuery>>, "OntRemoteError", None)
        ELSE IF read.out # "ok" THEN Result(p, <<FinalQuery>>, read.out, None)
        ELSE IF ~read.valid THEN Result(p, <<FinalQuery>>, "ok", None)
        ELSE IF Len(window) = 0 THEN Result(p, <<FinalQuery>>, "TypeError", None)
        ELSE Result(p, <<FinalQuery>>, "ok", ListV(window))

\* length() of either class; the raise for a response that is no integer fails
\* in the same way, with TypeError
BlockResultLength(class, p, reply) ==
    IF ~reply.ok THEN Result(p, <<LengthQuery>>, "OntRemoteError", None)
    ELSE IF ~IntParses(reply.text) THEN Result(p, <<LengthQuery>>, "TypeError", None)
    ELSE Result(p, <<LengthQuery>>, "ok", IntV(IntOf(reply.text)))

---------------------------------------------------------------------------
(* The specification of block reads: a BlockParameter, BlockResult or       *)
(* ExtendedBlockResult read from a device that answers every whole-block,   *)
(* final and count query with the line dev.text.                            *)

CountTokens == {<<"-", "1">>, <<"0">>, <<"1">>, <<"2">>, <<"A">>}
ItemTokens == {<<"0">>, <<"1">>, <<"A">>}

BlockResultTexts ==
    {Join(<<c>> \o r, ",") : c \in CountTokens, r \in SeqsOver(ItemTokens, 0, 2 * PairLen)}
    \cup {Join(t, ",") : t \in {<<<<"2">>, <<"1">>, <<"5">>, <<"0">>, <<"7">>>>,
                                <<<<"1">>, <<"1">>, <<Quote, "A", Quote>>>>,
                                <<<<"1">>, <<"1">>, <<>>>>,
                                <<<<"1">>, <<"1">>, <<"1", ".">>>>,
                                <<<<"1">>, <<Quote, "A", Quote>>>>,
                                <<<<"1">>, <<>>>>,
                                <<<<"2">>, <<"1", ".">>, <<"1">>>>,
                                <<<<>>>>}}

ResultClasses == {"BlockResult", "ExtendedBlockResult"}

InitBlocks ==
    /\ obj \in {"BlockParameter"} \cup ResultClasses
    /\ \E opcQuery \in BOOLEAN :
          par = IF obj = "BlockParameter" THEN BlockParameterInit(opcQuery) ELSE ResultInit
    /\ call = [op |-> "__init__", arg |-> None, pre |-> Pre(ResultInit),
               wire |-> <<>>, out |-> "ok", ret |-> None]
    /\ hist = NoHist
    /\ \E text \in (IF obj = "BlockParameter" THEN BlockTexts ELSE BlockResultTexts) :
          dev = [NoDevice EXCEPT !.text = text]

\* the answers a call can get: the first query fails, or it is answered with
\* dev.text and a second query, if any, with reply2
BlockAnswers ==
    {<<Failure, Failure>>} \cup {<<Reply(dev.text), reply2>> : reply2 \in SecondReplies}

BlockRead ==
    /\ obj = "BlockParameter"
    /\ \E index \in BlockIndexes, length \in BlockLengths, a \in BlockAnswers :
          Done("get", ListV(<<IntV(index), IntV(length), Answer(a[1].ok)>>),
               BlockParameterGet(par, index, length, a[1], a[2]))
    /\ UNCHANGED hist

BlockResultGetCall ==
    /\ obj \in ResultClasses
    /\ \E index \in BlockIndexes, length \in BlockLengths, a \in BlockAnswers :
          Done("get", ListV(<<IntV(index), IntV(length), Answer(a[1].ok)>>),
               BlockResultGet(obj, par, index, length, a[1], a[2]))
    /\ UNCHANGED hist

BlockResultFinalCall ==
    /\ obj \in ResultClasses
    /\ \E index \in BlockIndexes, length \in BlockLengths, ok \in BOOLEAN :
          Done("final", ListV(<<IntV(index), IntV(length), Answer(ok)>>),
               BlockResultFinal(obj, par, index, length, IF ok THEN Reply(dev.text) ELSE Failure))
    /\ UNCHANGED hist

BlockResultLengthCall ==
    /\ obj \in ResultClasses
    /\ \E ok \in BOOLEAN :
          Done("length", ListV(<<IntV(0), IntV(-1), Answer(ok)>>),
               BlockResultLength(obj, par, IF ok THEN Reply(dev.text) ELSE Failure))
    /\ UNCHANGED hist

NextBlocks == BlockRead \/ BlockResultGetCall \/ BlockResultFinalCall \/ BlockResultLengthCall

SpecBlocks == InitBlocks /\ [][NextBlocks]_vars

\* the last call: its index and length, whether its first query was answered
CallIndex == call.arg.s[1].n
CallLength == call.arg.s[2].n
Answered == call.op \in {"get", "final", "length"} /\ call.arg.s[3] # None

\* the tokens of the device's line: the count and what follows it
CountToken == Split(dev.text, ",")[1]
RestTokens == Tail(Split(dev.text, ","))

\* the line is 'count, flag1, value1, ..., flagcount, valuecount' with flags 0
\* or 1 and a value behind every flag 1
WellFormedPairs ==
    /\ IntParses(CountToken) /\ IntOf(CountToken) >= 0
    /\ Len(RestTokens) = 2 * IntOf(CountToken)
    /\ \A i \in 1..IntOf(CountToken) :
          /\ IntParses(RestTokens[2 * i - 1]) /\ IntOf(RestTokens[2 * i - 1]) \in {0, 1}
          /\ IntOf(RestTokens[2 * i - 1]) = 1 => Len(RestTokens[2 * i]) > 0

\* the list the pairs denote: value i as a scalar result decodes it, or None
PairsList ==
    ListV([i \in 1..IntOf(CountToken) |->
              IF IntOf(RestTokens[2 * i - 1]) = 1
              THEN DecodeResult(<<"1", ",">> \o RestTokens[2 * i]).value ELSE None])

\* C11: an ExtendedBlockResult read of 'count, flag1, value1, ...' returns a
\* list (not None) of exactly count elements, element i the decoded value i
\* when flag i is 1 and None when it is 0; '2,1,5,0,7' gives [5, None].
C11_PairsDecodeElementwise ==
    (obj = "ExtendedBlockResult" /\ Answered /\ WellFormedPairs /\ CallIndex = 0
       /\ (call.op = "get" \/ (call.op = "final" /\ CallLength = -1 /\ IntOf(CountToken) > 0))) =>
        /\ call.out = "ok"
        /\ call.ret = PairsList
        /\ Len(call.ret.s) = IntOf(CountToken)

C11_Witness ==
    /\ obj = "ExtendedBlockResult" /\ Answered /\ call.op = "get"
    /\ dev.text = <<"2", ",", "1", ",", "5", ",", "0", ",", "7">>
    /\ call.ret = ListV(<<IntV(5), None>>)

\* C12: an ExtendedBlockResult read whose declared count is not exactly half
\* the number of tokens after it fails with OntRemoteError and returns nothing.
C12_CountMustBeHalf ==
    (obj = "ExtendedBlockResult" /\ Answered /\ call.op \in {"get", "final"}
       /\ IntParses(CountToken) /\ IntOf(CountToken) >= 0
       /\ 2 * IntOf(CountToken) # Len(RestTokens)) =>
        call.out = "OntRemoteError" /\ call.ret = None

\* the elements a whole-block read delivers: the tokens of the line for a
\* BlockParameter, the values of a valid envelope for a result
Delivers ==
    obj = "BlockParameter" \/ (ReadValues(obj, dev.text).out = "ok" /\ ReadValues(obj, dev.text).valid)
Delivered ==
    IF obj = "BlockParameter" THEN Split(dev.text, ",") ELSE ReadValues(obj, dev.text).values
SliceFrom(index) == SubSeq(Delivered, index + 1, Len(Delivered))

\* C17: get(index > 0, length = None) issues the whole-block query; if and only
\* if no element is left from position index on it issues one more query, the
\* window of length 1 at index, whose fault reaches the caller; otherwise it
\* returns the elements from index to the end.
C17_EmptySliceRequeries ==
    (call.op = "get" /\ Answered /\ CallLength = -1 /\ CallIndex > 0 /\ Delivers) =>
        /\ call.wire[1] = (IF obj = "BlockParameter" THEN BlockQuery ELSE WholeQuery(obj))
        /\ IF Len(SliceFrom(CallIndex)) = 0
           THEN /\ Len(call.wire) = 2
                /\ call.wire[2] = (IF obj = "BlockParameter" THEN WindowQuery(CallIndex, 1)
                                   ELSE RangeQuery(obj, CallIndex, 1))
           ELSE /\ Len(call.wire) = 1
                /\ call.out = "ok" =>
                      /\ Len(call.ret.s) = Len(Delivered) - CallIndex
                      /\ obj # "BlockParameter" => call.ret = ListV(SliceFrom(CallIndex))

C17_Witness ==
    /\ obj = "BlockResult" /\ call.op = "get" /\ Answered /\ CallLength = -1 /\ CallIndex = 1
    /\ Delivers /\ Len(Delivered) = 1
    /\ Len(call.wire) = 2 /\ call.out = "OntRemoteError"

\* the window final(index, length) leaves of the values of a valid envelope
FinalWindow ==
    LET from == IF CallIndex > 0 THEN SliceFrom(CallIndex) ELSE Delivered
    IN  IF CallLength # -1 /\ CallLength < Len(from) THEN SubSeq(from, 1, CallLength) ELSE from

\* C18: final(index, length) of a BlockResult or ExtendedBlockResult with a
\* valid envelope issues the one final-data query; it raises OntRemoteError
\* when the window left after slicing is empty and returns the window otherwise.
C18_FinalRaisesOnEmptyWindow ==
    (obj \in ResultClasses /\ call.op = "final" /\ Answered /\ Delivers) =>
        /\ call.wire = <<FinalQuery>>
        /\ IF Len(FinalWindow) = 0 THEN call.out = "OntRemoteError"
           ELSE call.out = "ok" /\ call.ret = ListV(FinalWindow)

\* C19: length() issues the one count query and returns its integer value; a
\* response that is no integer makes it fail with OntRemoteError.
C19_LengthIsTheCount ==
    (obj \in ResultClasses /\ call.op = "length" /\ Answered) =>
        /\ call.wire = <<LengthQuery>>
        /\ IF IntParses(dev.text) THEN call.out = "ok" /\ call.ret = IntV(IntOf(dev.text))
           ELSE call.out = "OntRemoteError"

---------------------------------------------------------------------------
(* The specification of the records of an EventList: a device with a short  *)
(* list whose records carry the six duration tokens drawn at the start.     *)

DurationTokens ==
    {<<a, b, c, x, y, z>> : a \in {<<"0">>, <<"2">>}, b \in {<<"0">>, <<"2">>}, c \in {<<"0">>, <<"2">>},
                            x \in {<<"0">>, <<"2">>}, y \in {<<"0">>, <<"2">>}, z \in {<<"0">>, <<"2">>}}
    \cup {<<<<"1">>, <<"2">>, <<"3">>, <<"4">>, <<"5">>, <<"6">>>>,
          <<<<"2">>, <<"2", "3">>, <<"5", "9">>, <<"5", "9">>, <<"9", "9", "9">>,
            <<"9", "9", "9", "9", "9", "9">>>>,
          <<<<"0">>, <<"0">>, <<"0">>, <<"1">>, <<"1", "0", "0", "0">>, <<"0">>>>,
          <<<<"0">>, <<"0">>, <<"0">>, <<"1">>, <<"0">>, <<"-", "1">>>>,
          <<<<"0">>, <<"0">>, <<"0">>, <<"0">>, <<"0">>, <<"A">>>>,
          <<<<>>, <<"0">>, <<"0">>, <<"0">>, <<"0">>, <<"0">>>>}

InitRecords ==
    /\ obj = "EventList"
    /\ \E enableDecoding \in BOOLEAN : par = EventListInit(enableDecoding)
    /\ call = [op |-> "__init__", arg |-> None, pre |-> None, wire |-> <<>>, out |-> "ok", ret |-> None]
    /\ hist = NoHist
    /\ \E avail \in 0..2, duration \in DurationTokens :
          dev = [text |-> <<>>, schema |-> "valid", version |-> <<37, 0, 2, 0>>,
                 avail |-> avail, first |-> 0, fault |-> [kind |-> "none", at |-> 0],
                 duration |-> duration]

\* next() on an EventList not used before
EventNext ==
    /\ call.op = "__init__"
    /\ ListDone("next", None, EventListNext(par, dev))

NextRecords == EventGet \/ EventNext

SpecRecords == InitRecords /\ [][NextRecords]_vars

\* the events the last call returned
Returned == IF call.op = "next" THEN <<call.ret>> ELSE call.ret.s

\* the integer value of duration token i of the device's records
Token(i) == IntOf(dev.duration[i])

\* C13: the duration of every event get() or next() returns is
\* (((days*24 + hours)*60 + minutes)*60 + seconds)*10^9 + ms*10^6 + ns
\* nanoseconds of the record's tokens, held as the seconds and the nanoseconds
\* below a second; tokens (1,2,3,4,5,6) give 93784 s and 5000006 ns.
C13_DurationIsExact ==
    (call.op \in {"get", "next"} /\ call.out = "ok") =>
        \A i \in 1..Len(Returned) :
            Len(Returned[i].s) > 0 =>
               /\ Returned[i].s[2].t = "int"
               /\ Returned[i].s[2].e =
                     ((Token(1) * 24 + Token(2)) * 60 + Token(3)) * 60 + Token(4)
                        + ((Token(5) * 1000000 + Token(6)) \div 1000000000)
               /\ Returned[i].s[2].n = (Token(5) * 1000000 + Token(6)) % 1000000000

C13_Witness ==
    /\ call.op = "next"
    /\ call.out = "ok"
    /\ Len(Returned) > 0
    /\ Len(Returned[1].s) > 0
    /\ dev.duration = <<<<"1">>, <<"2">>, <<"3">>, <<"4">>, <<"5">>, <<"6">>>>
    /\ Returned[1].s[2].e = 93784
    /\ Returned[1].s[2].n = 5000006

---------------------------------------------------------------------------
(* class ResultGroup: the registration of results.                         *)

ResultGroupInit ==
    [cmd |-> <<>>, nameList |-> <<>>, names |-> {}, type |-> "None", set |-> "set", stored |-> None]

insertMark == <<":", ".", ".", ".">>

StartsWith(t, m) == Len(t) >= Len(m) /\ SubSeq(t, 1, Len(m)) = m

\* t.split(m) for a separator m of several characters; piece is the part in progress
RECURSIVE SplitAt(_, _, _)
SplitAt(t, m, piece) ==
    IF Len(t) = 0 THEN <<piece>>
    ELSE IF StartsWith(t, m) THEN <<piece>> \o SplitAt(SubSeq(t, Len(m) + 1, Len(t)), m, <<>>)
    ELSE SplitAt(Tail(t), m, Append(piece, Head(t)))

\* t.replace(old, new)
RECURSIVE ReplaceAll(_, _, _)
ReplaceAll(t, old, new) ==
    IF Len(t) = 0 THEN <<>>
    ELSE IF StartsWith(t, old) THEN new \o ReplaceAll(SubSeq(t, Len(old) + 1, Len(t)), old, new)
    ELSE <<Head(t)>> \o ReplaceAll(Tail(t), old, new)

\* t[:-1]
DropLast(t) == SubSeq(t, 1, Len(t) - 1)

ResultGroup_scpiRootComponents(rootName) ==
    IF Len(rootName) = 0 THEN [out |-> "IndexError", components |-> <<>>]
    ELSE LET root == IF rootName[Len(rootName)] = "?" THEN DropLast(rootName) ELSE rootName
             split == SplitAt(root, insertMark, <<>>)
             scpiComponents == IF Len(split) = 2 /\ Len(split[2]) = 0 THEN SubSeq(split, 1, 1) ELSE split
         IN  IF Len(scpiComponents) > 2 THEN [out |-> "OntRemoteError", components |-> <<>>]
             ELSE [out |-> "ok", components |-> scpiComponents]

ResultGroup_scpiCmd(rootName, scpiName) ==
    IF Len(scpiName) = 0 THEN [out |-> "IndexError", cmd |-> <<>>]
    ELSE LET a == IF scpiName[Len(scpiName)] = "?" THEN DropLast(scpiName) ELSE scpiName
         IN  IF Len(a) = 0 THEN [out |-> "IndexError", cmd |-> <<>>]
             ELSE LET b == IF a[Len(a)] = ":" THEN DropLast(a) ELSE a
                  IN  IF Len(b) = 0 THEN [out |-> "IndexError", cmd |-> <<>>]
                      ELSE LET name == IF b[1] = ":" THEN Tail(b) ELSE b
                               root == ResultGroup_scpiRootComponents(rootName)
                               c    == root.components
                               cmd  == IF Len(c) = 1 THEN c[1] \o <<":">> \o name \o <<"?">>
                                       ELSE c[1] \o <<":">> \o name \o <<":">> \o c[2] \o <<"?">>
                           IN  IF root.out # "ok" THEN [out |-> root.out, cmd |-> <<>>]
                               ELSE [out |-> "ok", cmd |-> ReplaceAll(cmd, <<":", ":">>, <<":">>)]

\* the name and the nodes of an item of results: a string stands for (item, item)
ItemName(item) == IF item.t = "str" THEN item.s ELSE item.s[1].s
ItemNodes(item) == IF item.t = "str" THEN item.s ELSE item.s[2].s

\* the for loop of addResults from item k on; cmd is the local command text
RECURSIVE ResultGroupAddLoop(_, _, _, _, _)
ResultGroupAddLoop(g, resultRoot, results, k, cmd) ==
    IF k > Len(results) THEN [p |-> g, out |-> "ok", cmd |-> cmd]
    ELSE LET name == ItemName(results[k])
             named == [g EXCEPT !.names = @ \cup {name}]
             c == ResultGroup_scpiCmd(resultRoot, ItemNodes(results[k]))
         IN  IF name \in g.names THEN [p |-> g, out |-> "OntRemoteError", cmd |-> cmd]
             ELSE IF c.out # "ok" THEN [p |-> named, out |-> c.out, cmd |-> cmd]
             ELSE ResultGroupAddLoop([named EXCEPT !.nameList = Append(@, <<name, c.cmd>>)],
                                     resultRoot, results, k + 1, cmd \o c.cmd \o <<";">>)

ResultGroupAddResults(g, resultRoot, results) ==
    LET loop == ResultGroupAddLoop(g, resultRoot, results, 1, <<>>)
        lead == IF Len(g.cmd) > 0 THEN g.cmd \o <<";">> ELSE g.cmd
    IN  IF loop.out # "ok" THEN Result(loop.p, <<>>, loop.out, None)
        ELSE Result([loop.p EXCEPT !.cmd = lead \o DropLast(loop.cmd)], <<>>, "ok", None)

---------------------------------------------------------------------------
(* The specification of a ResultGroup: results are registered by up to     *)
(* GroupCalls calls of addResults and read by get(); hist is the sequence  *)
(* of the addResults calls made, each with how it ended.                   *)

GroupCalls == 2

GroupRoots ==
    { <<":", "A">>,
      <<":", "A", "?">>,
      <<":", "A", ":", ".", ".", ".">>,
      <<":", "A", ":", ".", ".", ".", ":", "B">>,
      <<":", "A", ":", ".", ".", ".", ":", "B", ":", ".", ".", ".">>,
      <<".", ".", ".", ":", "A", ":", ".", ".", ".">> }

GroupResults ==
    { <<>>,
      <<StrV(<<"x">>)>>,
      <<StrV(<<"y">>)>>,
      <<StrV(<<"x">>), StrV(<<"y">>)>>,
      <<StrV(<<"x">>), StrV(<<"x">>)>>,
      <<ListV(<<StrV(<<"n">>), StrV(<<":", "x", "?">>)>>)>> }

GroupTexts ==
    { <<"1", ",", "9">>,
      <<"1", ",", "9", ";", "0", ",", "8">>,
      <<"1", ",", "9", ";", "1", ",", "8", ";", "1", ",", "7">>,
      <<"1", ",", "9", ";", "A", ",", "8">>,
      <<"1">> }

InitGroup ==
    /\ obj = "ResultGroup"
    /\ par = ResultGroupInit
    /\ call = [op |-> "__init__", arg |-> None, pre |-> Pre(ResultGroupInit),
               wire |-> <<>>, out |-> "ok", ret |-> None]
    /\ hist = <<>>
    /\ \E text \in GroupTexts : dev = [NoDevice EXCEPT !.text = text]

GroupAddResults ==
    /\ Len(hist) < GroupCalls
    /\ \E resultRoot \in GroupRoots, results \in GroupResults :
          LET r == ResultGroupAddResults(par, resultRoot, results)
          IN  /\ Done("addResults", ListV(<<StrV(resultRoot), ListV(results)>>), r)
              /\ hist' = Append(hist, [resultRoot |-> resultRoot, results |-> results, out |-> r.out])

GroupGet ==
    /\ \E ok \in BOOLEAN :
          Done("get", Answer(ok), ResultGroupGet(par, IF ok THEN Reply(dev.text) ELSE Failure))
    /\ UNCHANGED hist

NextGroup == GroupAddResults \/ GroupGet

SpecGroup == InitGroup /\ [][NextGroup]_vars

\* the number of ellipsis placeholders in a root
Placeholders(root) == Len(SplitAt(root, <<".", ".", ".">>, <<>>)) - 1

\* the names of the items of one addResults call
NamesOf(results) == [k \in 1..Len(results) |-> ItemName(results[k])]

\* the names registered by the calls of addResults that succeeded, in order
RECURSIVE RegisteredBy(_)
RegisteredBy(calls) ==
    IF Len(calls) = 0 THEN <<>>
    ELSE RegisteredBy(DropLast(calls))
         \o (IF calls[Len(calls)].out = "ok" THEN NamesOf(calls[Len(calls)].results) ELSE <<>>)

Distinct(names) == \A i, j \in 1..Len(names) : names[i] = names[j] => i = j

\* the last addResults call was given names that differ from each other and
\* from the names registered before it
UniqueNames ==
    LET before == RegisteredBy(DropLast(hist))
        given  == NamesOf(hist[Len(hist)].results)
    IN  /\ Distinct(given)
        /\ \A i \in 1..Len(given), j \in 1..Len(before) : given[i] # before[j]

\* C14: addResults(root, items) fails with the unsupported-wildcard error
\* (OntRemoteError) for every root with two or more ellipsis placeholders, and
\* succeeds for every root with none or one, given unique item names.
C14_WildcardsDecide ==
    (call.op = "addResults") =>
        /\ Placeholders(hist[Len(hist)].resultRoot) >= 2 => call.out = "OntRemoteError"
        /\ (Placeholders(hist[Len(hist)].resultRoot) <= 1 /\ UniqueNames) => call.out = "ok"

\* the sub-queries get() keeps for the names, joined by ';'
JoinedQueries == Join([i \in 1..Len(par.nameList) |-> par.nameList[i][2]], ";")

\* C20: after any sequence of addResults calls, get() makes one round trip
\* whose command is the ';'-join of one sub-query per registered name, in
\* registration order, and slot i of the response is decoded under name i.
C20_GetSendsTheJoin ==
    (call.op = "get" /\ Len(RegisteredBy(hist)) > 0) =>
        /\ [i \in 1..Len(par.nameList) |-> par.nameList[i][1]] = RegisteredBy(hist)
        /\ Len(call.wire) = 1
        /\ call.wire[1].arg = JoinedQueries
        /\ (call.out = "ok") =>
              /\ Len(call.ret.s) = Len(RegisteredBy(hist))
              /\ \A i \in 1..Len(call.ret.s) :
                    /\ call.ret.s[i].s[1] = StrV(RegisteredBy(hist)[i])
                    /\ Len(Split(dev.text, ";")) >= i
                    /\ LET d == DecodeResult(Split(dev.text, ";")[i])
                       IN  call.ret.s[i].s[2] = IF d.valid THEN d.value ELSE None

\* the ';'-separated slots of the response the device holds
Slots == Split(dev.text, ";")

\* a slot of two tokens whose first is the integer flag 0 or 1
WellFormedSlot(slot) ==
    /\ Len(Split(slot, ",")) = 2
    /\ IntParses(Split(slot, ",")[1])
    /\ IntOf(Split(slot, ",")[1]) \in {0, 1}
    /\ DecodeResult(slot).out = "ok"

\* C21: get() returns a mapping only if the response has exactly one slot per
\* registered result and every slot is a well-formed two-token result; with
\* fewer or more slots, or a malformed slot, it fails and returns nothing.
C21_GroupAllOrNothing ==
    (call.op = "get" /\ call.arg # None) =>
        IF Len(Slots) = Len(par.nameList) /\ \A i \in 1..Len(Slots) : WellFormedSlot(Slots[i])
        THEN call.out = "ok" \/ Len(par.cmd) = 0
        ELSE call.out # "ok" /\ call.ret = None

---------------------------------------------------------------------------
(* class ParameterGroup.                                                   *)

\* parameterList holds the members [name, block, p], p the attributes of the
\* Parameter or BlockParameter; dict is the set of attribute names of the group
ParameterGroupInit ==
    [parameterList |-> <<>>, dict |-> {"_con", "description", "_parameterList"}]

\* name.lower()
Lower(t) ==
    [i \in 1..Len(t) |->
        CASE t[i] = "A" -> "a" [] t[i] = "B" -> "b" [] t[i] = "C" -> "c"
          [] t[i] = "L" -> "l" [] t[i] = "O" -> "o" [] t[i] = "K" -> "k" [] OTHER -> t[i]]

\* name.rstrip(c)
RECURSIVE RStrip(_, _)
RStrip(t, c) == IF Len(t) > 0 /\ t[Len(t)] = c THEN RStrip(DropLast(t), c) ELSE t

\* t.rfind(m)
RFind(t, m) ==
    LET hits == {i \in 1..Len(t) : StartsWith(SubSeq(t, i, Len(t)), m)}
    IN  IF hits = {} THEN -1 ELSE (CHOOSE i \in hits : \A j \in hits : j <= i) - 1

ParameterGroup_isBlockParameter(scpiName) ==
    LET name == Lower(RStrip(scpiName, "?"))
        pos  == RFind(name, <<":", "b", "l", "o", "c">>)
    IN  pos > 0 /\ (Len(name) - pos) = 5

\* the Parameter or BlockParameter made for an item of addParameters
Member(item) ==
    LET queryOpc == IF Len(item) = 3 THEN item[3] ELSE FALSE
        block == ParameterGroup_isBlockParameter(item[2])
    IN  [name |-> item[1], block |-> block,
         p |-> IF block THEN BlockParameterInit(queryOpc) ELSE ParameterInit(queryOpc)]

\* mutant: a new parameter is put in front of the list
RegisterFirst(g, param) ==
    [g EXCEPT !.dict = @ \cup {param.name}, !.parameterList = <<param>> \o @]

\* self.__dict__[name] = ...; self._parameterList.append(self.__dict__[name])
Register(g, param) ==
    [g EXCEPT !.dict = @ \cup {param.name}, !.parameterList = Append(@, param)]

\* the for loop of addParameters from item k on
RECURSIVE ParameterGroupAddLoop(_, _, _)
ParameterGroupAddLoop(g, parameters, k) ==
    IF k > Len(parameters) THEN Result(g, <<>>, "ok", None)
    ELSE IF Len(parameters[k]) \notin {2, 3} THEN Result(g, <<>>, "OntRemoteError", None)
    ELSE IF parameters[k][1] \in g.dict THEN Result(g, <<>>, "OntRemoteError", None)
    ELSE ParameterGroupAddLoop(Register(g, Member(parameters[k])), parameters, k + 1)

ParameterGroupAddParameters(g, parameters) == ParameterGroupAddLoop(g, parameters, 1)

\* what a member sent, with the member it was sent for
Sent(name, wire) ==
    [i \in 1..Len(wire) |-> [tx |-> wire[i].tx, cmd |-> wire[i].cmd, arg |-> wire[i].arg, to |-> name]]

\* the for loop of store() from member k on; d holds the device's answers
RECURSIVE ParameterGroupStoreLoop(_, _, _, _)
ParameterGroupStoreLoop(g, d, k, wire) ==
    IF k > Len(g.parameterList) THEN Result(g, wire, "ok", None)
    ELSE LET param == g.parameterList[k]
             r == IF param.block THEN BlockParameterStore(param.p, d.block)
                  ELSE ParameterStore(param.p, d.scalar)
             after == [g EXCEPT !.parameterList[k].p = r.p]
             sent == wire \o Sent(param.name, r.wire)
         IN  IF r.out # "ok" THEN Result(after, sent, r.out, None)
             ELSE ParameterGroupStoreLoop(after, d, k + 1, sent)

ParameterGroupStore(g, d) == ParameterGroupStoreLoop(g, d, 1, <<>>)

\* the for loop of restore() from member k on
RECURSIVE ParameterGroupRestoreLoop(_, _, _, _, _)
ParameterGroupRestoreLoop(g, d, txOk, k, wire) ==
    IF k > Len(g.parameterList) THEN Result(g, wire, "ok", None)
    ELSE LET param == g.parameterList[k]
             r == IF param.block THEN BlockParameterRestore(param.p, d.block, txOk)
                  ELSE ParameterRestore(param.p, d.scalar, txOk)
             after == [g EXCEPT !.parameterList[k].p = r.p]
             sent == wire \o Sent(param.name, r.wire)
         IN  IF r.out # "ok" THEN Result(after, sent, r.out, None)
             ELSE ParameterGroupRestoreLoop(after, d, txOk, k + 1, sent)

ParameterGroupRestore(g, d, txOk) == ParameterGroupRestoreLoop(g, d, txOk, 1, <<>>)

---------------------------------------------------------------------------
(* The specification of a ParameterGroup: parameters are registered by up  *)
(* to GroupCalls calls of addParameters; hist is the sequence of those     *)
(* calls, each with how it ended and how many parameters it added.         *)

GroupParameters ==
    { <<<<"a", <<":", "A">>>>>>,
      <<<<"b", <<":", "B", ":", "B", "L", "O", "C">>, TRUE>>>>,
      <<<<"c", <<":", "C", ":", "b", "l", "o", "c", "?">>>>, <<"d", <<":", "B", "L", "O", "C">>, TRUE>>>>,
      <<<<"b", <<":", "B">>>>, <<"a", <<":", "A", ":", "B", "L", "O", "C">>>>>>,
      <<<<"e", <<":", "A">>>>, <<"description", <<":", "A">>>>, <<"f", <<":", "A">>>>>>,
      <<<<"g", <<":", "A">>>>, <<"h", <<":", "A">>, FALSE, FALSE>>>> }

ScalarAnswers == {Failure, Reply(<<"1">>), Reply(<<Quote, "A", Quote>>), Reply(<<>>)}
BlockWholeAnswers == {Failure, Reply(<<"1", ",", "1">>), Reply(<<"A">>)}

InitParameterGroup ==
    /\ obj = "ParameterGroup"
    /\ par = ParameterGroupInit
    /\ call = [op |-> "__init__", arg |-> None, pre |-> None, wire |-> <<>>, out |-> "ok", ret |-> None]
    /\ hist = <<>>
    /\ \E scalar \in ScalarAnswers, block \in BlockWholeAnswers :
          dev = [text |-> <<>>, schema |-> "absent", version |-> <<0, 0, 0, 0>>,
                 scalar |-> scalar, block |-> block]

GroupDone(op, r) ==
    /\ par' = r.p
    /\ call' = [op |-> op, arg |-> None, pre |-> None, wire |-> r.wire, out |-> r.out, ret |-> r.ret]
    /\ UNCHANGED <<obj, dev>>

AddParameters ==
    /\ Len(hist) < GroupCalls
    /\ \E parameters \in GroupParameters :
          LET r == ParameterGroupAddParameters(par, parameters)
          IN  /\ GroupDone("addParameters", r)
              /\ hist' = Append(hist, [parameters |-> parameters, out |-> r.out,
                                       added |-> Len(r.p.parameterList) - Len(par.parameterList)])

StoreAll ==
    /\ GroupDone("store", ParameterGroupStore(par, dev))
    /\ UNCHANGED hist

\* how restore() ends; the record of the call keeps whether the device took the writes
RestoreDone(txOk, r) ==
    /\ par' = r.p
    /\ call' = [op |-> "restore", arg |-> None, pre |-> [txOk |-> txOk],
                wire |-> r.wire, out |-> r.out, ret |-> r.ret]
    /\ UNCHANGED <<obj, dev, hist>>

RestoreAll == \E txOk \in BOOLEAN : RestoreDone(txOk, ParameterGroupRestore(par, dev, txOk))

NextParameterGroup == AddParameters \/ StoreAll \/ RestoreAll

SpecParameterGroup == InitParameterGroup /\ [][NextParameterGroup]_vars

\* the names the calls of addParameters registered, in the order of the calls
\* and, within a call, of its items
RECURSIVE RegistrationOrder(_)
RegistrationOrder(calls) ==
    IF Len(calls) = 0 THEN <<>>
    ELSE RegistrationOrder(DropLast(calls))
         \o [i \in 1..calls[Len(calls)].added |-> calls[Len(calls)].parameters[i][1]]

\* the position of a registered name in the registration order
Position(name) == CHOOSE k \in 1..Len(RegistrationOrder(hist)) : RegistrationOrder(hist)[k] = name

\* the members the last call wrote to, one entry per write
WrittenTo == [i \in 1..Len(Writes) |-> Writes[i].to]

\* C22: store() and restore() visit the registered parameters, scalar and
\* block mixed, in the order they were registered across all addParameters
\* calls: what they send never goes back to an earlier parameter, and a
\* restore that succeeds has written each parameter once, first registered first.
C22_VisitsInRegistrationOrder ==
    (call.op \in {"store", "restore"}) =>
        /\ \A i, j \in 1..Len(call.wire) :
              i < j => Position(call.wire[i].to) <= Position(call.wire[j].to)
        /\ (call.out = "ok") =>
              \A k \in 1..Len(RegistrationOrder(hist)) : \E i \in 1..Len(call.wire) :
                 call.wire[i].to = RegistrationOrder(hist)[k]
        /\ (call.op = "restore" /\ call.out = "ok") => WrittenTo = RegistrationOrder(hist)

C22_Witness ==
    /\ call.op = "restore" /\ call.out = "ok"
    /\ Len(hist) = 2
    /\ WrittenTo = <<"a", "c", "d">>
    /\ ~par.parameterList[1].block /\ par.parameterList[2].block

\* the page the device answers wrongly was asked for by the last call, and
\* the answer is one with an integer leading count
MalformedPage ==
    /\ call.op = "get"
    /\ dev.fault.kind \in {"count", "lead", "width"}
    /\ dev.fault.at >= 1
    /\ Len(SelectSeq(call.wire, LAMBDA w : w.cmd = "name? %d")) >= dev.fault.at

C24_SkipReturnsTheCount ==
    (call.op = "skip" /\ call.out = "ok") =>
        /\ call.ret.n = SumSeq(PageSizes)
        /\ call.ret.n >= 0
        /\ call.ret.n = (IF ToRead <= 0 THEN 0 ELSE ToRead)
        /\ \A i \in 1..Len(PageSizes) : PageSizes[i] \in 1..100

---------------------------------------------------------------------------
(* The specification of an EventList in use: up to FeedCalls calls of      *)
(* get, next, skip, resetReadPosition and additionalInfo in any order.     *)
(* The device holds a schema document (kind); whether its FORM endpoint    *)
(* exists can differ from call to call, and schema is what the call found. *)
(* hist counts the calls and tells whether a decoder had been built when   *)
(* an earlier call or the last call began.                                 *)

FeedCalls == 3

FeedNames ==
    { <<"A">>, <<"A", ":", "S", "E", "C">>, <<"A", ":", "M", "I", "N">>,
      <<"A", ":", "H", "O", "U", "R", ":", "B">> }

InitFeed ==
    /\ obj = "EventList"
    /\ \E enableDecoding \in BOOLEAN, name \in FeedNames :
          par = [EventListInit(enableDecoding) EXCEPT !.name = name]
    /\ call = [op |-> "__init__", arg |-> None, pre |-> [decode |-> "_decodeInit", decoder |-> "None"],
               wire |-> <<>>, out |-> "ok", ret |-> None]
    /\ hist = [calls |-> 0, built |-> FALSE]
    /\ \E version \in EventVersions, kind \in {"valid", "broken"} :
          dev = [text |-> <<>>, schema |-> kind, kind |-> kind, version |-> version,
                 avail |-> 3, first |-> 0, fault |-> [kind |-> "none", at |-> 0],
                 duration |-> <<<<"1">>, <<"2">>, <<"3">>, <<"4">>, <<"5">>, <<"6">>>>]

\* the device as a call finds it
Found(exists) == [dev EXCEPT !.schema = IF exists THEN dev.kind ELSE "absent"]

FeedDone(op, arg, r, d) ==
    /\ hist.calls < FeedCalls
    /\ par' = r.p
    /\ call' = [op |-> op, arg |-> arg, pre |-> [decode |-> par.decode, decoder |-> par.decoder],
                wire |-> r.wire, out |-> r.out, ret |-> r.ret]
    /\ dev' = [d EXCEPT !.avail = @ - r.taken, !.first = @ + r.taken]
    /\ hist' = [calls |-> hist.calls + 1, built |-> hist.built \/ par.decoder = "built"]
    /\ UNCHANGED obj

FeedGet ==
    \E number \in 1..2, exists \in BOOLEAN :
       FeedDone("get", ListV(<<IntV(number), None>>),
                EventListGet(par, Found(exists), number, None), Found(exists))

FeedNext ==
    \E exists \in BOOLEAN : FeedDone("next", None, EventListNext(par, Found(exists)), Found(exists))

FeedSkip == FeedDone("skip", ListV(<<IntV(1)>>), EventListSkip(par, dev, 1), dev)

FeedResetReadPosition ==
    \E txOk \in BOOLEAN :
       FeedDone("resetReadPosition", None, EventListResetReadPosition(par, txOk),
                IF txOk THEN [dev EXCEPT !.avail = @ + dev.first, !.first = 0] ELSE dev)

FeedAdditionalInfo ==
    \E exists \in BOOLEAN :
       FeedDone("additionalInfo", None, EventListAdditionalInfo(par, Found(exists)), Found(exists))

NextFeed == FeedGet \/ FeedNext \/ FeedSkip \/ FeedResetReadPosition \/ FeedAdditionalInfo

SpecFeed == InitFeed /\ [][NextFeed]_vars

\* the existence probes and the schema queries of the last call
Probes == SelectSeq(call.wire, LAMBDA w : w.cmd = "*EXIST? \"%s\"")
SchemaQueries == SelectSeq(call.wire, LAMBDA w : w.cmd = "%s?")

\* the events the last call returned
Fetched ==
    IF call.out # "ok" THEN <<>>
    ELSE IF call.op = "get" THEN call.ret.s
    ELSE IF call.op = "next" /\ Len(call.ret.s) > 0 THEN <<call.ret>>
    ELSE <<>>

\* an event went through the decoder: it carries the decoded fields
IsDecoded(event) == Len(event.s) > 2

\* the name with a trailing SEC, MIN or HOUR node replaced by FORM, or with a
\* FORM node added
FormEndpoint(name) ==
    LET units == {<<"S", "E", "C">>, <<"M", "I", "N">>, <<"H", "O", "U", "R">>}
    IN  IF \E u \in units : name = u THEN <<"F", "O", "R", "M">>
        ELSE IF \E u \in units : Len(name) > Len(u) /\ SubSeq(name, Len(name) - Len(u), Len(name)) = <<":">> \o u
        THEN LET u == CHOOSE v \in units : Len(name) > Len(v)
                                             /\ SubSeq(name, Len(name) - Len(v), Len(name)) = <<":">> \o v
             IN  SubSeq(name, 1, Len(name) - Len(u)) \o <<"F", "O", "R", "M">>
        ELSE name \o <<":", "F", "O", "R", "M">>

\* C25: with decoding disabled or a device version below (37,0,2) no call ever
\* issues the existence probe or the schema query and no event carries decoded
\* fields; otherwise a probe asks for the FORM endpoint of the list's name
\* (a trailing SEC/MIN/HOUR node replaced), a schema query comes only right
\* after a probe, and only if the probe answered non-zero.
C25_DecoderIsGated ==
    IF ~par.enableDecoding \/ ~TupleGE(dev.version, <<37, 0, 2>>)
    THEN /\ Len(Probes) = 0 /\ Len(SchemaQueries) = 0
         /\ \A i \in 1..Len(Fetched) : ~IsDecoded(Fetched[i])
    ELSE /\ \A i \in 1..Len(Probes) : Probes[i].arg = FormEndpoint(par.name)
         /\ \A i \in 1..Len(call.wire) :
               call.wire[i].cmd = "%s?" =>
                  /\ i > 1 /\ call.wire[i - 1].cmd = "*EXIST? \"%s\""
                  /\ call.wire[i].arg = FormEndpoint(par.name)
                  /\ dev.schema # "absent"

C25_Witness ==
    /\ par.enableDecoding /\ TupleGE(dev.version, <<37, 0, 2>>)
    /\ par.name = <<"A", ":", "S", "E", "C">>
    /\ call.op = "get" /\ call.out = "ok"
    /\ Len(Probes) = 1 /\ Probes[1].arg = <<"A", ":", "F", "O", "R", "M">>
    /\ Len(SchemaQueries) = 1
    /\ IsDecoded(Fetched[1])

\* C26: once the decoder is active (an event was decoded through the schema)
\* every event fetched afterwards by get() or next() is passed through the
\* decoder, whatever calls came in between and whatever the device answers.
C26_DecodingIsPermanent ==
    (call.pre.decode = "_decodeEvent") => \A i \in 1..Len(Fetched) : IsDecoded(Fetched[i])

\* C27: the schema is fetched and parsed at most once per EventList: after a
\* decoder has been built, no later get(), next() or additionalInfo() issues
\* the existence probe or the schema query again.
C27_SchemaFetchedOnce ==
    hist.built => (Len(Probes) = 0 /\ Len(SchemaQueries) = 0)

---------------------------------------------------------------------------
(* class OntEventDecoder (util.py).  A schema is the parsed JSON document: *)
(* [fid: [shift, mask], formats: <<[formatId, format: <<[name, type,       *)
(* shift, mask]>>]>>, hasEnums, enums: a set of <<type, value, label>>];   *)
(* the mandatory tags are present in every schema considered here.         *)

RECURSIVE Pow2(_)
Pow2(k) == IF k = 0 THEN 1 ELSE 2 * Pow2(k - 1)

\* value >> shift
Shr(value, shift) == value \div Pow2(shift)

\* a & b for naturals
RECURSIVE BitAnd(_, _)
BitAnd(a, b) == IF a = 0 \/ b = 0 THEN 0 ELSE ((a % 2) * (b % 2)) + 2 * BitAnd(a \div 2, b \div 2)

\* the keys of _decoderDict and _tagDict, and the entry of a key: the fields of
\* the last format declared with that formatId
FormatIds(schema) == {schema.formats[i].formatId : i \in 1..Len(schema.formats)}
FormatOf(schema, fid) ==
    LET last == CHOOSE i \in 1..Len(schema.formats) :
                    /\ schema.formats[i].formatId = fid
                    /\ \A j \in 1..Len(schema.formats) : schema.formats[j].formatId = fid => j <= i
    IN  schema.formats[last].format

\* the keys of _enumDict
EnumTypes(schema) == IF schema.hasEnums THEN {e[1] : e \in schema.enums} ELSE {}

OntEventDecoder_validate(schema) ==
    IF \E i \in 1..Len(schema.formats) :
          /\ \A j \in 1..(i - 1) : Len(schema.formats[j].format) > 0
                                     /\ schema.formats[j].format[1].name = "eventID"
          /\ Len(schema.formats[i].format) = 0
    THEN "IndexError"
    ELSE IF \E i \in 1..Len(schema.formats) : /\ Len(schema.formats[i].format) > 0
                                                /\ schema.formats[i].format[1].name # "eventID"
    THEN "OntEventDecoderError"
    ELSE IF \E i \in 1..Len(schema.formats) : \E k \in 1..Len(schema.formats[i].format) :
               /\ schema.formats[i].format[k].type # "NUM"
               /\ schema.formats[i].format[k].type \notin EnumTypes(schema)
    THEN "OntEventDecoderError"
    ELSE "ok"

\* OntEventDecoder(evtFormatString, strict)
OntEventDecoderInit(schema, strict) ==
    LET built == [formatDict |-> schema, strict |-> strict, state |-> "built"]
    IN  IF strict /\ OntEventDecoder_validate(schema) # "ok"
        THEN Step([built EXCEPT !.state = "failed"], <<>>, OntEventDecoder_validate(schema))
        ELSE Step(built, <<>>, "ok")

\* mutant: the fields are taken from the raw value without their shift
OntEventDecoder_decodeUnshifted(p, value) ==
    LET formatIndex == BitAnd(Shr(value, p.formatDict.fid.shift), p.formatDict.fid.mask)
        decoderList == FormatOf(p.formatDict, formatIndex)
    IN  IF formatIndex \notin FormatIds(p.formatDict)
        THEN [out |-> "OntEventDecoderError", formatIndex |-> formatIndex, values |-> <<>>]
        ELSE [out |-> "ok", formatIndex |-> formatIndex,
              values |-> [k \in 1..Len(decoderList) |-> BitAnd(value, decoderList[k].mask)]]

OntEventDecoder_decode(p, value) ==
    LET formatIndex == BitAnd(Shr(value, p.formatDict.fid.shift), p.formatDict.fid.mask)
        decoderList == FormatOf(p.formatDict, formatIndex)
    IN  IF formatIndex \notin FormatIds(p.formatDict)
        THEN [out |-> "OntEventDecoderError", formatIndex |-> formatIndex, values |-> <<>>]
        ELSE [out |-> "ok", formatIndex |-> formatIndex,
              values |-> [k \in 1..Len(decoderList) |->
                             BitAnd(Shr(value, decoderList[k].shift), decoderList[k].mask)]]

OntEventDecoder_interpretedValue(p, value, typeTag) ==
    IF p.formatDict.hasEnums /\ \E e \in p.formatDict.enums : e[1] = typeTag /\ e[2] = value
    THEN (CHOOSE e \in p.formatDict.enums : e[1] = typeTag /\ e[2] = value)[3]
    ELSE ""

\* mutant: a lenient decoder raises on an unknown format as a strict one does
OntEventDecoder_decodeEventRaising(p, value) ==
    LET d == OntEventDecoder_decode(p, value)
        tags == FormatOf(p.formatDict, d.formatIndex)
        items == [k \in 1..Len(d.values) |->
                     [name |-> tags[k].name, value |-> d.values[k],
                      label |-> OntEventDecoder_interpretedValue(p, d.values[k], tags[k].type)]]
    IN  IF d.out # "ok" THEN [out |-> d.out, result |-> None]
        ELSE [out |-> "ok",
              result |-> [eventID |-> SelectSeq(items, LAMBDA it : it.name = "eventID"),
                          additionalInfo |-> SelectSeq(items, LAMBDA it : it.name # "eventID")]]

\* decodeEvent(value): the dictionary as its 'eventID' entry (none or one) and
\* the entries of its 'additionalInfo' in order (none when the key is not set)
OntEventDecoder_decodeEvent(p, value) ==
    LET d == OntEventDecoder_decode(p, value)
        tags == FormatOf(p.formatDict, d.formatIndex)
        items == [k \in 1..Len(d.values) |->
                     [name |-> tags[k].name, value |-> d.values[k],
                      label |-> OntEventDecoder_interpretedValue(p, d.values[k], tags[k].type)]]
    IN  IF d.out # "ok"
        THEN IF p.strict THEN [out |-> d.out, result |-> None]
             ELSE [out |-> "ok", result |-> [eventID |-> <<>>, additionalInfo |-> <<>>]]
        ELSE [out |-> "ok",
              result |-> [eventID |-> SelectSeq(items, LAMBDA it : it.name = "eventID"),
                          additionalInfo |-> SelectSeq(items, LAMBDA it : it.name # "eventID")]]

\* EventList._decodeEvent(event) with a decoder: event.update(addData); the
\* event is its six base fields and what the decoder adds
EventList_decodeEvent(p, id) ==
    LET addData == OntEventDecoder_decodeEvent(p, id)
    IN  IF addData.out # "ok" THEN [out |-> addData.out, result |-> None]
        ELSE [out |-> "ok",
              result |-> [base |-> <<"id", "startTime", "stopTime", "duration", "type", "count">>,
                          id |-> id, eventID |-> addData.result.eventID,
                          additionalInfo |-> addData.result.additionalInfo]]

---------------------------------------------------------------------------
(* Specification of a decoder: constructed from a schema, strict or        *)
(* lenient, then decoding raw event ids, directly and for an event list.   *)

RawBits == 4
DecodeCalls == 2

Field(name, type, shift, mask) == [name |-> name, type |-> type, shift |-> shift, mask |-> mask]
FormatEntry(formatId, format) == [formatId |-> formatId, format |-> format]
Schema(shift, mask, formats, hasEnums, enums) ==
    [fid |-> [shift |-> shift, mask |-> mask], formats |-> formats, hasEnums |-> hasEnums, enums |-> enums]

EventEnums == {<<"EV", 1, "LOS">>, <<"EV", 2, "AIS">>}

Schemas ==
    { Schema(2, 3, <<FormatEntry(0, <<Field("eventID", "EV", 0, 3)>>),
                     FormatEntry(1, <<Field("eventID", "EV", 0, 1), Field("lane", "NUM", 1, 1)>>)>>,
             TRUE, EventEnums),
      Schema(2, 3, <<FormatEntry(1, <<Field("lane", "NUM", 1, 1), Field("eventID", "EV", 0, 1)>>)>>,
             TRUE, EventEnums),
      Schema(2, 1, <<FormatEntry(0, <<Field("eventID", "EV", 0, 3), Field("port", "PT", 1, 1)>>)>>,
             TRUE, EventEnums),
      Schema(3, 1, <<FormatEntry(0, <<Field("eventID", "NUM", 0, 5)>>)>>, FALSE, {}),
      Schema(3, 1, <<FormatEntry(0, <<Field("eventID", "EV", 0, 5)>>)>>, FALSE, {}),
      Schema(0, 3, <<FormatEntry(1, <<Field("eventID", "EV", 1, 3), Field("port", "EV", 2, 3),
                                 Field("lane", "NUM", 3, 1)>>),
                     FormatEntry(2, <<Field("eventID", "NUM", 2, 2)>>)>>,
             TRUE, EventEnums),
      Schema(2, 3, <<FormatEntry(0, <<>>), FormatEntry(1, <<Field("eventID", "EV", 0, 1)>>)>>,
             TRUE, EventEnums) }

InitDecoder ==
    /\ obj = "OntEventDecoder"
    /\ \E schema \in Schemas, strict \in BOOLEAN :
          par = [formatDict |-> schema, strict |-> strict, state |-> "new"]
    /\ call = [op |-> "none", arg |-> None, pre |-> None, wire |-> <<>>, out |-> "ok", ret |-> None]
    /\ hist = <<>>
    /\ dev = NoDevice

DecoderDone(op, value, r) ==
    /\ call' = [op |-> op, arg |-> IntV(value), pre |-> None, wire |-> <<>>, out |-> r.out, ret |-> r.result]
    /\ hist' = Append(hist, op)
    /\ UNCHANGED <<obj, par, dev>>

\* OntEventDecoder(evtFormatString, strict)
DecoderConstruct ==
    /\ par.state = "new"
    /\ LET r == OntEventDecoderInit(par.formatDict, par.strict)
       IN  /\ par' = r.p
           /\ call' = [op |-> "__init__", arg |-> None, pre |-> None, wire |-> <<>>, out |-> r.out, ret |-> None]
    /\ UNCHANGED <<obj, hist, dev>>

\* decoder.decodeEvent(value)
DecoderDecodeEvent ==
    /\ par.state = "built"
    /\ Len(hist) < DecodeCalls
    /\ \E value \in 0..(Pow2(RawBits) - 1) :
          DecoderDone("decodeEvent", value, OntEventDecoder_decodeEvent(par, value))

\* EventList._decodeEvent(event) of a list holding this decoder: the list
\* builds its decoder with its own _strict, which is never set
DecoderListDecodeEvent ==
    /\ par.state = "built"
    /\ par.strict = EventListInit(TRUE).strict
    /\ Len(hist) < DecodeCalls
    /\ \E id \in 0..(Pow2(RawBits) - 1) :
          DecoderDone("_decodeEvent", id, EventList_decodeEvent(par, id))

NextDecoder == DecoderConstruct \/ DecoderDecodeEvent \/ DecoderListDecodeEvent

SpecDecoder == InitDecoder /\ [][NextDecoder]_vars

---------------------------------------------------------------------------
(* Claims about the decoder.                                               *)

\* bit i of a natural
Bit(x, i) == (x \div Pow2(i)) % 2

\* v is (raw >> shift) & mask, said bit by bit
Extracted(v, raw, shift, mask) ==
    /\ v \in 0..mask
    /\ \A i \in 0..RawBits : Bit(v, i) = Bit(raw, i + shift) * Bit(mask, i)

\* the selector of a raw value under a schema
Selector(schema, raw) == CHOOSE v \in 0..schema.fid.mask : Extracted(v, raw, schema.fid.shift, schema.fid.mask)

\* the fields the schema declares for a selector, in declared order
Declared(schema, selector) ==
    CHOOSE i \in 1..Len(schema.formats) : schema.formats[i].formatId = selector

\* the label the schema's tables give a value of a type, "" without an entry
Label(schema, type, value) ==
    IF \E e \in schema.enums : e[1] = type /\ e[2] = value
    THEN (CHOOSE e \in schema.enums : e[1] = type /\ e[2] = value)[3] ELSE ""

\* item reports field under its name with the extracted value and its label
Reports(item, field, schema, raw) ==
    /\ item.name = field.name
    /\ Extracted(item.value, raw, field.shift, field.mask)
    /\ item.label = Label(schema, field.type, item.value)

\* C28: a raw value whose selector (raw >> shift) & mask of FORMATID is
\* declared decodes to one entry per declared field of the selected format:
\* the field named eventID under 'eventID', the others under 'additionalInfo'
\* in declared order, each with the value (raw >> fieldShift) & fieldMask and
\* the enum label of that value for the field's type, or the empty label.
C28_DecodesDeclaredFields ==
    (call.op = "decodeEvent" /\ Selector(par.formatDict, call.arg.n) \in FormatIds(par.formatDict)) =>
        LET schema == par.formatDict
            raw == call.arg.n
            fields == schema.formats[Declared(schema, Selector(schema, raw))].format
            ids == SelectSeq(fields, LAMBDA f : f.name = "eventID")
            others == SelectSeq(fields, LAMBDA f : f.name # "eventID")
        IN  /\ call.out = "ok"
            /\ Len(call.ret.eventID) = Len(ids)
            /\ \A k \in 1..Len(ids) : Reports(call.ret.eventID[k], ids[k], schema, raw)
            /\ Len(call.ret.additionalInfo) = Len(others)
            /\ \A k \in 1..Len(others) : Reports(call.ret.additionalInfo[k], others[k], schema, raw)

\* raw 13 under the three-field format: eventID 2 is AIS, port 3 has no label
C28_Witness ==
    /\ call.op = "decodeEvent"
    /\ call.arg.n = 13
    /\ call.ret # None
    /\ call.ret.eventID = <<[name |-> "eventID", value |-> 2, label |-> "AIS"]>>
    /\ call.ret.additionalInfo = <<[name |-> "port", value |-> 3, label |-> ""],
                                   [name |-> "lane", value |-> 1, label |-> ""]>>

\* the raw value of the last call selects a format the schema does not declare
UnknownFormat == Selector(par.formatDict, call.arg.n) \notin FormatIds(par.formatDict)

\* C29: for a raw value whose selector is not declared, a strict decoder's
\* decodeEvent fails with the decoder error, a lenient decoder's returns the
\* empty mapping, and the event list's decoding step returns the event with
\* its six base fields and no decoded field, without failing.
C29_UnknownFormatIsTolerated ==
    /\ (call.op = "decodeEvent" /\ UnknownFormat /\ par.strict) =>
           call.out = "OntEventDecoderError"
    /\ (call.op = "decodeEvent" /\ UnknownFormat /\ ~par.strict) =>
           /\ call.out = "ok"
           /\ call.ret.eventID = <<>> /\ call.ret.additionalInfo = <<>>
    /\ (call.op = "_decodeEvent" /\ UnknownFormat) =>
           /\ call.out = "ok"
           /\ call.ret.base = <<"id", "startTime", "stopTime", "duration", "type", "count">>
           /\ call.ret.id = call.arg.n
           /\ call.ret.eventID = <<>> /\ call.ret.additionalInfo = <<>>

\* the list decodes raw 9, selector 2, under a schema declaring 0 and 1
C29_Witness ==
    /\ call.op = "_decodeEvent"
    /\ call.arg.n = 9
    /\ FormatIds(par.formatDict) = {0, 1}
    /\ par.formatDict.fid = [shift |-> 2, mask |-> 3]
    /\ call.out = "ok"
    /\ call.ret.eventID = <<>>

\* every format's first field is named eventID
FirstFieldIsEventId(schema) ==
    \A i \in 1..Len(schema.formats) :
       /\ schema.formats[i].format # <<>>
       /\ Head(schema.formats[i].format).name = "eventID"

\* every type other than NUM has a table in ENUMS
TypesHaveTables(schema) ==
    \A i \in 1..Len(schema.formats) : \A k \in 1..Len(schema.formats[i].format) :
       LET type == schema.formats[i].format[k].type
       IN  type # "NUM" => (schema.hasEnums /\ \E e \in schema.enums : e[1] = type)

\* C30: a strict construction succeeds exactly when every format's first
\* field is named eventID and every type other than NUM has an enum table,
\* and fails with the decoder error otherwise; a lenient construction
\* succeeds whatever the schema.
C30_StrictValidates ==
    call.op = "__init__" =>
        IF par.strict
        THEN IF FirstFieldIsEventId(par.formatDict) /\ TypesHaveTables(par.formatDict)
             THEN call.out = "ok" /\ par.state = "built"
             ELSE call.out = "OntEventDecoderError" /\ par.state = "failed"
        ELSE call.out = "ok" /\ par.state = "built"

---------------------------------------------------------------------------
(* Further properties of Parameter and BlockParameter, checked under Spec. *)

\* the two tokens of the answer to the last range()
RangeAnswer == Split(call.pre.answer.text, ";")

\* C31: range() sends the MIN and the MAX query as one command and, for an
\* answer of two numeric tokens, returns the pair of their values, both
\* floating-point when either token holds a decimal point and both integer
\* otherwise.
C31_RangeTypedByEitherToken ==
    (obj = "Parameter" /\ call.op = "range") =>
        /\ call.wire = <<RangeQueryPair>>
        /\ (/\ call.pre.answer.ok
            /\ Len(RangeAnswer) = 2
            /\ NumericParses(RangeAnswer[1]) /\ NumericParses(RangeAnswer[2])) =>
               /\ call.out = "ok"
               /\ Len(call.ret.s) = 2
               /\ \A i \in 1..2 :
                     IF Contains(RangeAnswer[1], ".") \/ Contains(RangeAnswer[2], ".")
                     THEN call.ret.s[i] = FloatOf(RangeAnswer[i])
                     ELSE call.ret.s[i] = IntV(IntOf(RangeAnswer[i]))

\* C33: while the type of a Parameter or BlockParameter is unresolved, its
\* set, get and parsing methods are the unbound ones of the class, whatever
\* calls failed before: a failed first get() or set() leaves nothing rebound,
\* so that the next set() probes the type again.
C33_ResolutionIsAtomic ==
    par.type = "None" =>
        /\ par.set = "set"
        /\ obj = "Parameter" => par.get = "get"
        /\ obj = "BlockParameter" => par.parseValues = "_parseValues"

\* C34: once the type of a Parameter is resolved, every get() that succeeds
\* returns a value of that type, the one type() reports.
C34_GetReturnsResolvedType ==
    (obj = "Parameter" /\ call.op = "get" /\ call.out = "ok" /\ call.pre.type # "None") =>
        /\ par.type = call.pre.type
        /\ call.ret.t = par.type

\* C35: an addResults call that fails leaves the group as it was: the names
\* taken, the list of registered names and the compound command are those of
\* before the call.
C35_FailedAddLeavesGroup ==
    [][(call'.op = "addResults" /\ Len(hist') = Len(hist) + 1 /\ call'.out # "ok") =>
          /\ par'.names = par.names
          /\ par'.nameList = par.nameList
          /\ par'.cmd = par.cmd]_vars

\* C36: a get() that fails has consumed no event: the device holds as many
\* unread events after the call as before it.
C36_FailedGetConsumesNothing ==
    (obj = "EventList" /\ call.op = "get" /\ call.out # "ok") => dev.avail = call.pre.n

\* C37: a restore() of a ParameterGroup that fails because a registered
\* parameter has no stored value has sent no write for any parameter.
C37_RestoreAllOrNothing ==
    (/\ obj = "ParameterGroup" /\ call.op = "restore" /\ call.out = "OntRemoteError"
     /\ call.pre.txOk
     /\ \E k \in 1..Len(par.parameterList) : par.parameterList[k].p.stored = None) =>
        call.wire = <<>>

\* C38: no call of a Parameter ends in the assertion of the class-level
\* set() or get(): once the type is resolved both names are bound to the
\* methods of the type, whatever was called and answered before.
C38_AssertionsUnreachable ==
    obj = "Parameter" =>
        /\ call.out # "AssertionError"
        /\ par.type # "None" => (par.set # "set" /\ par.get # "get")

\* a set() on an endpoint resolved as int that has a stored value
C38_Witness ==
    /\ obj = "Parameter" /\ call.op = "set" /\ call.out = "ok"
    /\ call.pre.type = "int" /\ call.pre.stored
    /\ par.set = "_set" /\ par.get = "_getNumeric"
    /\ hist.setSince

---------------------------------------------------------------------------
(* The wire name of a vector endpoint: BlockParameter.__init__ and         *)
(* BlockResult.__init__ derive it from the given name in the same way.     *)

BlockMarker == <<":", "b", "l", "o", "c">>

\* self._name of a BlockParameter made for scpiName
BlockParameterName(scpiName) ==
    LET tmpName == RStrip(Lower(scpiName), "?")
        endPos == RFind(tmpName, BlockMarker)
    IN  IF endPos > 0 THEN SubSeq(scpiName, 1, endPos) ELSE SubSeq(scpiName, 1, Len(tmpName))

\* self.name of a BlockResult made for scpiName
BlockResultName(scpiName) ==
    LET tmpName == RStrip(Lower(scpiName), "?")
        endPos == RFind(tmpName, BlockMarker)
    IN  IF endPos > 0 THEN SubSeq(scpiName, 1, endPos) ELSE SubSeq(scpiName, 1, Len(tmpName))

\* most nodes of a given name
NameNodes == 3

NodeTexts == {<<"A">>, <<"B">>, <<"B", "L", "O", "C">>, <<"b", "l", "o", "c">>, <<"B", "l", "o", "c">>,
              <<"B", "L", "O", "C", "K">>}

\* the names given: nodes joined by ':', with or without a query mark
ScpiNames ==
    {Join(nodes, ":") \o marks : nodes \in SeqsOver(NodeTexts, 1, NameNodes), marks \in {<<>>, <<"?">>}}

InitNames ==
    /\ obj = "scpiName"
    /\ \E scpiName \in ScpiNames : par = [scpiName |-> scpiName, name |-> <<>>, made |-> "None"]
    /\ call = [op |-> "none", arg |-> None, pre |-> None, wire |-> <<>>, out |-> "ok", ret |-> None]
    /\ hist = NoHist
    /\ dev = NoDevice

\* BlockParameter(con, scpiName)
MakeBlockParameter ==
    /\ par.made = "None"
    /\ par' = [par EXCEPT !.name = BlockParameterName(par.scpiName), !.made = "BlockParameter"]
    /\ call' = [call EXCEPT !.op = "__init__"]
    /\ UNCHANGED <<obj, hist, dev>>

\* BlockResult(con, scpiName)
MakeBlockResult ==
    /\ par.made = "None"
    /\ par' = [par EXCEPT !.name = BlockResultName(par.scpiName), !.made = "BlockResult"]
    /\ call' = [call EXCEPT !.op = "__init__"]
    /\ UNCHANGED <<obj, hist, dev>>

\* the member ParameterGroup.addParameters makes for scpiName
MakeMember ==
    /\ par.made = "None"
    /\ par' = IF ParameterGroup_isBlockParameter(par.scpiName)
              THEN [par EXCEPT !.name = BlockParameterName(par.scpiName), !.made = "BlockParameter"]
              ELSE [par EXCEPT !.name = RStrip(par.scpiName, "?"), !.made = "Parameter"]
    /\ call' = [call EXCEPT !.op = "addParameters"]
    /\ UNCHANGED <<obj, hist, dev>>

NextNames == MakeBlockParameter \/ MakeBlockResult \/ MakeMember

SpecNames == InitNames /\ [][NextNames]_vars

\* the nodes of the given name without its query marks
GivenNodes == Split(RStrip(par.scpiName, "?"), ":")

\* C32: the wire name of a vector endpoint is the given name without its
\* trailing '?' marks and, only when the last node is BLOC in any case,
\* without that node; every other node is kept.
C32_OnlyFinalMarkerStripped ==
    par.made \in {"BlockParameter", "BlockResult"} =>
        par.name = IF Len(GivenNodes) > 1 /\ Lower(GivenNodes[Len(GivenNodes)]) = <<"b", "l", "o", "c">>
                   THEN Join(DropLast(GivenNodes), ":")
                   ELSE Join(GivenNodes, ":")

---------------------------------------------------------------------------
(* class Measurement (_meas.py): stop(), one step per use of the           *)
(* connection.  par is the frame of the call: where it stands (pc), doWait *)
(* and maxWait; hist is what the polls reported so far.                    *)

Measurement_maxWait == 60

AbortCommand == Wire("sendScpi", ":ABOR", <<>>)
StatusQuery == Wire("receiveScpi", ":STAT:OPER:COND?", <<>>)

\* isRunning(): bit 4 of the operation status condition register
MeasurementIsRunning(reply) ==
    IF ~reply.ok THEN [out |-> "OntRemoteError", result |-> FALSE]
    ELSE IF ~IntParses(reply.text) THEN [out |-> "ValueError", result |-> FALSE]
    ELSE [out |-> "ok", result |-> BitAnd(IntOf(reply.text), 16) > 0]

StatusReplies ==
    {Failure, Reply(<<"0">>), Reply(<<"1">>), Reply(<<"1", "6">>), Reply(<<"1", "7">>), Reply(<<"A">>)}

InitStop ==
    /\ obj = "Measurement"
    /\ par = [pc |-> "idle", doWait |-> FALSE, maxWait |-> 0]
    /\ call = [op |-> "none", arg |-> None, pre |-> None, wire |-> <<>>, out |-> "ok", ret |-> None]
    /\ hist = [polls |-> 0, last |-> "none", stopped |-> FALSE]
    /\ dev = NoDevice

\* self._con.sendScpi(':ABOR'); doWait = True; maxWait = 60
StopAbort ==
    /\ par.pc = "idle"
    /\ \E txOk \in BOOLEAN :
          /\ par' = IF txOk THEN [pc |-> "while", doWait |-> TRUE, maxWait |-> Measurement_maxWait]
                    ELSE [par EXCEPT !.pc = "failed"]
          /\ call' = [call EXCEPT !.op = "stop", !.wire = <<AbortCommand>>,
                                  !.out = IF txOk THEN "running" ELSE "OntRemoteError"]
    /\ UNCHANGED <<obj, hist, dev>>

\* one turn of the while loop: maxWait -= 1; doWait = self.isRunning()
StopPoll ==
    /\ par.pc = "while" /\ par.doWait /\ par.maxWait > 0
    /\ \E reply \in StatusReplies :
          LET r == MeasurementIsRunning(reply)
          IN  /\ par' = IF r.out = "ok" THEN [par EXCEPT !.maxWait = @ - 1, !.doWait = r.result]
                        ELSE [par EXCEPT !.maxWait = @ - 1, !.pc = "failed"]
              /\ call' = [call EXCEPT !.wire = Append(@, StatusQuery),
                                      !.out = IF r.out = "ok" THEN "running" ELSE r.out]
              /\ hist' = IF r.out = "ok"
                         THEN [polls |-> hist.polls + 1, last |-> IF r.result THEN "running" ELSE "stopped",
                               stopped |-> hist.stopped \/ ~r.result]
                         ELSE [hist EXCEPT !.polls = @ + 1, !.last = "failed"]
    /\ UNCHANGED <<obj, dev>>

\* the loop is left: if maxWait == 0: raise OntRemoteError('Timeout ...')
StopLeave ==
    /\ par.pc = "while" /\ ~(par.doWait /\ par.maxWait > 0)
    /\ par' = [par EXCEPT !.pc = IF par.maxWait = 0 THEN "timeout" ELSE "returned"]
    /\ call' = [call EXCEPT !.out = IF par.maxWait = 0 THEN "OntRemoteError" ELSE "ok"]
    /\ UNCHANGED <<obj, hist, dev>>

NextStop == StopAbort \/ StopPoll \/ StopLeave

SpecStop == InitStop /\ [][NextStop]_vars

\* stop() with every step taken that can be taken
SpecStopFair == SpecStop /\ WF_vars(NextStop)

\* stop() has returned or raised
StopEnded == par.pc \in {"returned", "timeout", "failed"}

\* C39: stop() sends the abort command and then polls the status at most 60
\* times; it raises the timeout error only when the last poll reported the
\* measurement running, and returns normally when some poll reported it
\* stopped.
C39_TimeoutOnlyWhileRunning ==
    obj = "Measurement" =>
        /\ call.op = "stop" => (call.wire[1] = AbortCommand /\ Len(call.wire) <= 1 + 60)
        /\ \A i \in 2..Len(call.wire) : call.wire[i] = StatusQuery
        /\ par.pc = "timeout" => hist.last = "running"
        /\ (StopEnded /\ hist.stopped) => par.pc = "returned"

\* C39, termination: stop() returns or raises after finitely many steps
C39_StopTerminates == <>StopEnded

---------------------------------------------------------------------------
(* class OntRemote (_core.py): connect() and disconnect(), one step per    *)
(* use of the administrative port or of the measurement port.  par is the  *)
(* session: where connect() stands (pc), OntRemote._isConnected, the state *)
(* of the measurement-port transport _mp, what the port list said about    *)
(* protection and whether the caller gave user and password; hist names    *)
(* the step that raised.                                                   *)

DrainLen == 2

ErrorQuery == Wire("_receive", ":SYST:ERR?", <<>>)
PromptOff == Wire("sendScpi", "*prompt off", <<>>)
VersionQuery == Wire("receiveScpi", ":DIAG:SW?", <<>>)
LoginCommand == Wire("sendScpi", ":PRT:REG \"user\",\"password\"", <<>>)

NoErrorText == <<"\"", "N", "o", " ", "e", "r", "r", "o", "r", "\"">>

\* one turn of the loop of getErrorsFromErrorQueue()
ErrorQueueEntry(reply) ==
    IF ~reply.ok THEN "OntRemoteError"
    ELSE IF Len(Split(reply.text, ",")) < 2 THEN "IndexError"
    ELSE IF Split(reply.text, ",")[2] = NoErrorText THEN "break"
    ELSE "entry"

ErrorReplies ==
    {Failure, Reply(<<"0", ",">> \o NoErrorText), Reply(<<"-", "1", ",", "\"", "E", "\"">>), Reply(<<"0">>)}

\* _disconnect(): the transport is closed only when the session is connected;
\* the flags are cleared whether or not closing raised
OntRemote_disconnect(s, closeOk) ==
    IF s.isConnected THEN [s EXCEPT !.isConnected = FALSE, !.mpOpen = FALSE] ELSE s

\* _checkProtection() followed by sendScpi('*prompt off')
ProtectionOutcomes == {"ok", "loginFailed", "promptFailed"}

CheckProtection(s, outcome) ==
    IF s.pwdRequired /\ ~s.credentials
    THEN [out |-> "OntRemoteError", wire |-> <<>>]
    ELSE IF s.pwdRequired /\ outcome = "loginFailed"
    THEN [out |-> "OntRemoteError", wire |-> <<LoginCommand, ErrorQuery>>]
    ELSE [out |-> IF outcome = "promptFailed" THEN "OntRemoteError" ELSE "ok",
          wire |-> (IF s.pwdRequired THEN <<LoginCommand, ErrorQuery>> ELSE <<>>) \o <<PromptOff>>]

ConnectEnded == par.pc \in {"returned", "raised"}

InitConnect ==
    /\ obj = "OntRemote"
    /\ par = [pc |-> "idle", isConnected |-> FALSE, mpOpen |-> FALSE,
              pwdRequired |-> FALSE, credentials |-> FALSE, entries |-> 0]
    /\ call = [op |-> "none", arg |-> None, pre |-> None, wire |-> <<>>, out |-> "ok", ret |-> None]
    /\ hist = [step |-> "none", was |-> FALSE]
    /\ dev = NoDevice

\* connect(): self._queryTcpPort(...), then "if not self._isConnected"
ConnectLookup ==
    /\ par.pc = "idle" \/ ConnectEnded
    /\ \E found \in BOOLEAN, pwdRequired \in BOOLEAN, credentials \in BOOLEAN :
          /\ par' = IF ~found THEN [par EXCEPT !.pc = "raised", !.credentials = credentials]
                    ELSE [par EXCEPT !.pc = IF par.isConnected THEN "returned" ELSE "open",
                                     !.pwdRequired = pwdRequired, !.credentials = credentials,
                                     !.entries = 0]
          /\ call' = [call EXCEPT !.op = "connect", !.wire = <<>>,
                                  !.out = IF ~found THEN "OntRemoteError"
                                          ELSE IF par.isConnected THEN "ok" ELSE "running"]
          /\ hist' = [step |-> IF found THEN "none" ELSE "lookup", was |-> par.isConnected]
    /\ UNCHANGED <<obj, dev>>

\* self._mp.connect(...); self._isConnected = True
ConnectOpen ==
    /\ par.pc = "open"
    /\ \E opened \in BOOLEAN :
          /\ par' = IF opened THEN [par EXCEPT !.pc = "drain", !.mpOpen = TRUE, !.isConnected = TRUE]
                    ELSE [par EXCEPT !.pc = "raised"]
          /\ call' = [call EXCEPT !.out = IF opened THEN "running" ELSE "OntRemoteError"]
          /\ hist' = [hist EXCEPT !.step = IF opened THEN "none" ELSE "open"]
    /\ UNCHANGED <<obj, dev>>

\* self.getErrorsFromErrorQueue(), one query of the error queue
ConnectDrain ==
    /\ par.pc = "drain"
    /\ \E reply \in ErrorReplies :
          LET e == ErrorQueueEntry(reply)
          IN  /\ e = "entry" => par.entries < DrainLen
              /\ par' = IF e = "break" THEN [par EXCEPT !.pc = "protect"]
                        ELSE IF e = "entry" THEN [par EXCEPT !.entries = @ + 1]
                        ELSE [par EXCEPT !.pc = "raised"]
              /\ call' = [call EXCEPT !.wire = Append(@, ErrorQuery),
                                      !.out = IF e \in {"break", "entry"} THEN "running" ELSE e]
              /\ hist' = [hist EXCEPT !.step = IF e \in {"break", "entry"} THEN "none" ELSE "drain"]
    /\ UNCHANGED <<obj, dev>>

\* the try block around _checkProtection() and sendScpi('*prompt off'); both
\* except clauses call disconnect() and raise
ConnectProtect ==
    /\ par.pc = "protect"
    /\ \E outcome \in ProtectionOutcomes, closeOk \in BOOLEAN :
          LET r == CheckProtection(par, outcome)
          IN  /\ par' = IF r.out = "ok" THEN [par EXCEPT !.pc = "version"]
                        ELSE [OntRemote_disconnect(par, closeOk) EXCEPT !.pc = "raised"]
              /\ call' = [call EXCEPT !.wire = @ \o r.wire,
                                      !.out = IF r.out = "ok" THEN "running" ELSE r.out]
              /\ hist' = [hist EXCEPT !.step = IF r.out = "ok" THEN "none" ELSE "protect"]
    /\ UNCHANGED <<obj, dev>>

\* versionInfo = self.receiveScpi(':DIAG:SW?'); parseVersionInfo(versionInfo)
ConnectVersion ==
    /\ par.pc = "version"
    /\ \E answer \in {"version", "malformed", "failed"} :
          /\ par' = [par EXCEPT !.pc = IF answer = "version" THEN "returned" ELSE "raised"]
          /\ call' = [call EXCEPT !.wire = Append(@, VersionQuery),
                                  !.out = CASE answer = "version" -> "ok"
                                            [] answer = "malformed" -> "IndexError"
                                            [] OTHER -> "OntRemoteError"]
          /\ hist' = [hist EXCEPT !.step = IF answer = "version" THEN "none" ELSE "version"]
    /\ UNCHANGED <<obj, dev>>

\* disconnect() between two calls of connect()
Disconnect ==
    /\ ConnectEnded
    /\ \E closeOk \in BOOLEAN :
          /\ par' = [OntRemote_disconnect(par, closeOk) EXCEPT !.pc = "idle"]
          /\ call' = [call EXCEPT !.op = "disconnect", !.wire = <<>>,
                                  !.out = IF par.isConnected /\ ~closeOk THEN "OntRemoteError" ELSE "ok"]
    /\ UNCHANGED <<obj, hist, dev>>

NextConnect ==
    ConnectLookup \/ ConnectOpen \/ ConnectDrain \/ ConnectProtect \/ ConnectVersion \/ Disconnect

SpecConnect == InitConnect /\ [][NextConnect]_vars

\* C40: when connect() has raised, whichever step failed, the session is
\* disconnected: the connected flag is false and the measurement-port
\* transport is closed.
C40_FailedConnectLeavesDisconnected ==
    (obj = "OntRemote" /\ call.op = "connect" /\ par.pc = "raised") =>
        (~par.isConnected /\ ~par.mpOpen)

\* C40 for a connect() on a session that was not connected before
C40_FreshConnectLeavesDisconnected ==
    (obj = "OntRemote" /\ call.op = "connect" /\ par.pc = "raised" /\ ~hist.was) =>
        (~par.isConnected /\ ~par.mpOpen)

\* C40 for the steps that do leave the session disconnected when they raise:
\* the port lookup, opening the transport and the protection login
C40_GuardedStepsDisconnect ==
    (obj = "OntRemote" /\ call.op = "connect" /\ par.pc = "raised" /\ ~hist.was
        /\ hist.step \in {"lookup", "open", "protect"}) =>
        (~par.isConnected /\ ~par.mpOpen)

===========================================================================
